---- MODULE Spec2Model ----
(***************************************************************************)
(* Geometry pipeline of the 4C webviewer: FourCGeometry.__init__ and the   *)
(* functions it calls (read_geometry_from_file.py), and the part of the    *)
(* FourCWebServer constructor that leads to it (fourc_webserver.py).       *)
(*                                                                         *)
(* Representation.                                                         *)
(*  - A file name is a sequence of pieces; the piece "." is a dot, every   *)
(*    other piece is a non-empty dot-free string.  A path is the sequence  *)
(*    <<directory, "/">> \o name; the empty string is <<>>.                *)
(*  - A section name is the sequence of its blank-separated words.         *)
(*  - A function result is a record [ok, val]; ok = FALSE is a raised      *)
(*    exception (val then holds the kind of the exception).                *)
(*  - A dict keyed by strings is a function whose DOMAIN is the key set.   *)
(***************************************************************************)
EXTENDS Integers, Sequences, FiniteSets, TLC

\* ---------------------------------------------------------------- bounds
\* most design-condition items of one input deck
MaxItems == 2
\* most point-field names of one file
MaxNames == 4
\* entity ids (node-set ids, element-block ids) range over 1..MaxEntity
MaxEntity == 2
\* number of points of a mesh; its cells are the NumNodes - 1 chain segments
NumNodes == 3

\* ------------------------------------------------------ program constants
EXODUS_FILE_SUFFIXES == {<<".", "exo">>, <<".", "e">>}
VTU_FILE_SUFFIXES == {<<".", "vtu">>}
SUPPORTED_GEOMETRY_FORMATS == EXODUS_FILE_SUFFIXES \cup VTU_FILE_SUFFIXES

\* ------------------------------------------------------------ generic help
Ok(v) == [ok |-> TRUE, val |-> v]
Raise(e) == [ok |-> FALSE, val |-> e]

Max(S) == CHOOSE x \in S : \A y \in S : y <= x

RECURSIVE SetToSeq(_)
SetToSeq(S) ==
    IF S = {} THEN <<>>
    ELSE LET x == CHOOSE y \in S : TRUE IN <<x>> \o SetToSeq(S \ {x})

\* the subsets of P with at most k elements
RECURSIVE UpTo(_, _)
UpTo(P, k) ==
    IF k = 0 THEN {{}}
    ELSE LET R == UpTo(P, k - 1) IN R \cup {s \cup {x} : s \in R, x \in P}

\* str(n) of a small non-negative integer
Digits == <<"0", "1", "2", "3", "4", "5", "6", "7", "8", "9">>
Str(n) == Digits[n + 1]

\* ------------------------------------------------------- pathlib.PurePath
\* position of the last "." of a name, 0 when there is none (str.rfind + 1)
RFindDot(name) ==
    LET D == {i \in 1..Len(name) : name[i] = "."}
    IN IF D = {} THEN 0 ELSE Max(D)

\* PurePath.suffix: name[i:] when 0 < i < len(name) - 1 (0-based), else ""
PathSuffix(name) ==
    LET i == RFindDot(name)
    IN IF 1 < i /\ i < Len(name) THEN SubSeq(name, i, Len(name)) ELSE <<>>

\* PurePath.stem: name[:i] under the same condition, else the whole name
PathStem(name) ==
    LET i == RFindDot(name)
    IN IF 1 < i /\ i < Len(name) THEN SubSeq(name, 1, i - 1) ELSE name

\* PurePath.name: the pieces after the last "/"
PathName(path) ==
    LET S == {i \in 1..Len(path) : path[i] = "/"}
    IN IF S = {} THEN path ELSE SubSeq(path, Max(S) + 1, Len(path))

\* Path(dir) / name
PathJoin(dir, name) == <<dir, "/">> \o name

\* variant: the whole file name is kept in front of ".vtu"
VtuPathForWholeName(temp_dir, fourc_yaml_file) ==
    PathJoin(temp_dir, PathName(fourc_yaml_file) \o <<".", "vtu">>)

\* str(Path(temp_dir) / f"{Path(fourc_yaml_file).stem}.vtu")
VtuPathFor(temp_dir, fourc_yaml_file) ==
    PathJoin(temp_dir, PathStem(PathName(fourc_yaml_file)) \o <<".", "vtu">>)

\* --------------------------------------------------------- the input deck
\* section names of the decks considered, in the order the deck lists them
G1 == <<"STRUCTURE", "GEOMETRY">>
G2 == <<"FLUID", "GEOMETRY">>
EL == <<"STRUCTURE", "ELEMENTS">>
DP == <<"DESIGN", "POINT", "DIRICH", "CONDITIONS">>
DL == <<"DESIGN", "LINE", "DIRICH", "CONDITIONS">>
DS == <<"DESIGN", "SURF", "NEUMANN", "CONDITIONS">>
DV == <<"DESIGN", "VOL", "NEUMANN", "CONDITIONS">>
DX == <<"DESIGN", "DESCRIPTION">>
SectionOrder == <<G1, G2, EL, DP, DL, DS, DV, DX>>
SectionNames == {SectionOrder[i] : i \in 1..Len(SectionOrder)}
DesignNames == {DP, DL, DS, DV, DX}

\* a section: absent, or a mapping that may hold FILE and ELEMENT_BLOCKS
\* (geometry sections), or a list of items (design-condition sections)
Section(hasFile, file, hasBlocks, blocks, items) ==
    [present |-> TRUE, hasFile |-> hasFile, file |-> file,
     hasBlocks |-> hasBlocks, blocks |-> blocks, items |-> items]
AbsentSection ==
    [present |-> FALSE, hasFile |-> FALSE, file |-> <<>>,
     hasBlocks |-> FALSE, blocks |-> <<>>, items |-> <<>>]

\* k.endswith(word), k a section name
EndsWith(k, word) == Len(k) > 0 /\ k[Len(k)] = word
\* " WORD " in k: the word with a blank on either side
ContainsBlankWordBlank(k, word) == \E i \in 2..(Len(k) - 1) : k[i] = word
\* "WORD " in k: the word followed by a blank
ContainsWordBlank(k, word) == \E i \in 1..(Len(k) - 1) : k[i] = word

\* fourc_yaml.sections, as the list of the names of the sections present
SectionsOf(yaml) ==
    SelectSeq(SectionOrder, LAMBDA k : yaml[k].present)

\* get_geometry_file
RECURSIVE CollectFiles(_, _, _)
CollectFiles(yaml, keys, geometry_files) ==
    IF keys = <<>> THEN Ok(geometry_files)
    ELSE IF ~yaml[Head(keys)].hasFile THEN Raise("geometry_without_file")
    ELSE CollectFiles(yaml, Tail(keys),
                      Append(geometry_files, yaml[Head(keys)].file))

SeqRange(s) == {s[i] : i \in 1..Len(s)}

\* variant: the first declared FILE is taken, the others are not compared
get_geometry_file_first(yaml) ==
    LET keys_ending_with_geometry ==
            SelectSeq(SectionsOf(yaml), LAMBDA k : EndsWith(k, "GEOMETRY"))
        collected == CollectFiles(yaml, keys_ending_with_geometry, <<>>)
    IN IF ~collected.ok THEN collected
       ELSE IF collected.val = <<>> THEN Ok(<<>>)
       ELSE Ok(<<collected.val[1]>>)

get_geometry_file(yaml) ==
    LET keys_ending_with_geometry ==
            SelectSeq(SectionsOf(yaml), LAMBDA k : EndsWith(k, "GEOMETRY"))
        collected == CollectFiles(yaml, keys_ending_with_geometry, <<>>)
    IN IF ~collected.ok THEN collected
       ELSE IF collected.val = <<>> THEN Ok(<<>>)
       ELSE IF Cardinality(SeqRange(collected.val)) # 1
            THEN Raise("several_geometry_files")
       ELSE Ok(<<collected.val[1]>>)

\* variant: the ELEMENTS sections are looked at before the geometry files
geom_type_elements_first(yaml) ==
    IF SelectSeq(SectionsOf(yaml), LAMBDA k : EndsWith(k, "ELEMENTS")) # <<>>
    THEN Ok("legacy")
    ELSE LET files == get_geometry_file(yaml)
         IN IF ~files.ok THEN files
            ELSE IF files.val = <<>> THEN Raise("cannot_determine_geometry_type")
            ELSE IF PathSuffix(files.val[1]) \in SUPPORTED_GEOMETRY_FORMATS
                 THEN Ok("external_geometry")
                 ELSE Raise("unsupported_geometry_file")

\* FourCGeometry.geom_type
geom_type(yaml) ==
    LET files == get_geometry_file(yaml)
    IN IF ~files.ok THEN files
       ELSE IF files.val # <<>>
            THEN IF PathSuffix(files.val[1]) \in SUPPORTED_GEOMETRY_FORMATS
                 THEN Ok("external_geometry")
                 ELSE Raise("unsupported_geometry_file")
       ELSE IF SelectSeq(SectionsOf(yaml), LAMBDA k : EndsWith(k, "ELEMENTS")) # <<>>
            THEN Ok("legacy")
       ELSE Raise("cannot_determine_geometry_type")

\* ------------------------------------------------------------- the meshes
Nodes == 0..(NumNodes - 1)
Entities == 1..MaxEntity

\* the key str(n) of a point set or cell set, and the id of a nodeset tag
KeyOf(n) == <<Str(n)>>

\* exodus_to_meshio_type
exodus_to_meshio_type ==
    [t \in {"SPHERE", "BEAM", "BEAM2", "BEAM3", "BAR2", "SHELL", "SHELL4",
            "SHELL8", "SHELL9", "QUAD", "QUAD4", "QUAD5", "QUAD8", "QUAD9",
            "TRI", "TRIANGLE", "TRI3", "TRI6", "TRI7", "HEX", "HEXAHEDRON",
            "HEX8", "HEX9", "HEX20", "HEX27", "TETRA", "TETRA4", "TET4",
            "TETRA8", "TETRA10", "TETRA14", "PYRAMID", "WEDGE"} |->
        CASE t = "SPHERE" -> "vertex"
          [] t \in {"BEAM", "BEAM2", "BAR2"} -> "line"
          [] t = "BEAM3" -> "line3"
          [] t \in {"SHELL", "SHELL4", "QUAD", "QUAD4"} -> "quad"
          [] t \in {"SHELL8", "QUAD8"} -> "quad8"
          [] t \in {"SHELL9", "QUAD9"} -> "quad9"
          [] t = "QUAD5" -> "quad5"
          [] t \in {"TRI", "TRIANGLE", "TRI3"} -> "triangle"
          [] t = "TRI6" -> "triangle6"
          [] t = "TRI7" -> "triangle7"
          [] t \in {"HEX", "HEXAHEDRON", "HEX8"} -> "hexahedron"
          [] t = "HEX9" -> "hexahedron9"
          [] t = "HEX20" -> "hexahedron20"
          [] t = "HEX27" -> "hexahedron27"
          [] t = "TETRA" -> "tetra"
          [] t \in {"TETRA4", "TET4"} -> "tetra4"
          [] t = "TETRA8" -> "tetra8"
          [] t = "TETRA10" -> "tetra10"
          [] t = "TETRA14" -> "tetra14"
          [] t = "PYRAMID" -> "pyramid"
          [] t = "WEDGE" -> "wedge"]

\* special_meshio_mesh_to_lnmmeshio_dis_to_vtu_node_order["hexahedron27"]:
\* the (dis_id, vtu_id) pairs, split into the two lists switch_node_order
\* builds from them (0-based positions)
hexahedron27_dis_mapping ==
    <<0, 1, 2, 3, 4, 5, 6, 7, 8, 9, 10, 11, 12, 13, 14, 15, 16, 17, 18, 19,
      26, 20, 25, 24, 22, 21, 23>>
hexahedron27_vtu_mapping_repeated ==
    <<0, 1, 2, 3, 4, 5, 6, 7, 8, 9, 10, 11, 16, 17, 18, 19, 12, 13, 14, 15,
      25, 24, 26, 23, 21, 22, 21>>
hexahedron27_vtu_mapping ==
    <<0, 1, 2, 3, 4, 5, 6, 7, 8, 9, 10, 11, 16, 17, 18, 19, 12, 13, 14, 15,
      25, 24, 26, 23, 21, 22, 20>>
special_node_order_types == {"hexahedron27"}

\* element_nodes[mapping]: numpy indexing of a node tuple by an index list
TakeNodes(element_nodes, mapping) ==
    [j \in 1..Len(mapping) |-> element_nodes[mapping[j] + 1]]

\* sum of the first k lengths of a list of cell blocks
RECURSIVE CumCount(_, _)
CumCount(cells, k) ==
    IF k = 0 THEN 0 ELSE CumCount(cells, k - 1) + Len(cells[k].data)

\* --------------------------------------------------------- _categorize
\* A field name is the sequence of its characters.  Positions in a list of
\* names are 0-based; None is written -1.
\* names.index(x), None when x is not in the list
IndexOrNone(names, x) ==
    LET P == {i \in 1..Len(names) : names[i] = x}
    IN IF P = {} THEN -1 ELSE (CHOOSE i \in P : \A j \in P : i <= j) - 1

\* variant: every position counts as found
TruthyAlways(i) == TRUE

\* bool(i) of a position or None: None and 0 are false
Truthy(i) == i # -1 /\ i # 0

\* name[:-n] and name[-n:]
DropLast(name, n) == SubSeq(name, 1, Len(name) - n)
LastChars(name, n) ==
    IF Len(name) <= n THEN name ELSE SubSeq(name, Len(name) - n + 1, Len(name))

\* the three lists _categorize builds
Groups(single, double, triple) ==
    [single |-> single, double |-> double, triple |-> triple]

\* the while loop of _categorize from position k on
RECURSIVE CategorizeFrom(_, _, _, _)
CategorizeFrom(names, k, is_accounted_for, g) ==
    IF k = Len(names)
    THEN (IF \A i \in 0..(Len(names) - 1) : i \in is_accounted_for
          THEN Ok(g) ELSE Raise("ReadError"))
    ELSE IF k \in is_accounted_for
    THEN CategorizeFrom(names, k + 1, is_accounted_for, g)
    ELSE
    LET name == names[k + 1]
    IN IF LastChars(name, 1) = <<"X">>
       THEN LET i_y == IndexOrNone(names, DropLast(name, 1) \o <<"Y">>)
                i_z == IndexOrNone(names, DropLast(name, 1) \o <<"Z">>)
            IN IF Truthy(i_y) /\ Truthy(i_z)
               THEN CategorizeFrom(names, k + 1, is_accounted_for \cup {k, i_y, i_z},
                        [g EXCEPT !.triple =
                             Append(@, <<DropLast(name, 1), k, i_y, i_z>>)])
               ELSE CategorizeFrom(names, k + 1, is_accounted_for \cup {k},
                        [g EXCEPT !.single = Append(@, <<name, k>>)])
       ELSE IF LastChars(name, 2) = <<"_", "R">>
       THEN LET i_z == IndexOrNone(names, DropLast(name, 2) \o <<"_", "Z">>)
            IN IF Truthy(i_z)
               THEN CategorizeFrom(names, k + 1, is_accounted_for \cup {k, i_z},
                        [g EXCEPT !.double =
                             Append(@, <<DropLast(name, 2), k, i_z>>)])
               ELSE CategorizeFrom(names, k + 1, is_accounted_for \cup {k},
                        [g EXCEPT !.single = Append(@, <<name, k>>)])
       ELSE CategorizeFrom(names, k + 1, is_accounted_for \cup {k},
                [g EXCEPT !.single = Append(@, <<name, k>>)])

\* _categorize(names); name[-1] of an empty name is an IndexError
_categorize(names) ==
    IF \E i \in 1..Len(names) : names[i] = <<>> THEN Raise("IndexError")
    ELSE CategorizeFrom(names, 0, {}, Groups(<<>>, <<>>, <<>>))

\* A mesh file.  kind "exo": blocks are the connect<k> variables (elem_type,
\* 1-based node indices), eb_prop1 and the node sets (ns_prop1, 1-based
\* node_ns<k>) are stored.  kind "vtu": blocks are the cell blocks (0-based),
\* point_data holds the point_set_<id> arrays, block_id the per-cell field.
MeshFile(kind, num_nodes, blocks, eb_prop1, ns_prop1, node_ns, point_data, has_block_id, block_id) ==
    [kind |-> kind, num_nodes |-> num_nodes, blocks |-> blocks, eb_prop1 |-> eb_prop1,
     ns_prop1 |-> ns_prop1, node_ns |-> node_ns, point_data |-> point_data,
     has_block_id |-> has_block_id, block_id |-> block_id]

\* meshio.Mesh, as far as the pipeline reads it
Mesh(num_points, cells, point_data, has_block_id, block_id, point_sets, cell_sets) ==
    [num_points |-> num_points, cells |-> cells, point_data |-> point_data,
     has_block_id |-> has_block_id, block_id |-> block_id,
     point_sets |-> point_sets, cell_sets |-> cell_sets]

NoMesh == Mesh(0, <<>>, <<>>, FALSE, <<>>, <<>>, <<>>)

Min2(a, b) == IF a <= b THEN a ELSE b

\* str.upper() on the element-type strings the files carry
Upper(t) ==
    CASE t = "bar2" -> "BAR2"
      [] t = "truss" -> "TRUSS"
      [] OTHER -> t

\* a variable of nc.variables, or the value the reading loop starts from
\* when the file stores no variable of that name
StoredOr(file, key, initial) == IF key \in DOMAIN file THEN file[key] ELSE initial

\* the last position among the first n of keys that holds key
LastWith(keys, n, key) == Max({i \in 1..n : keys[i] = key})

\* {k: v for k, v in zip(keys, values)} as the sequence of its items in
\* insertion order: a repeated key keeps its first place and its last value
ZipDict(keys, values) ==
    LET n == Min2(Len(keys), Len(values))
        first == SelectSeq([i \in 1..n |-> i],
                           LAMBDA i : \A j \in 1..(i - 1) : keys[j] # keys[i])
    IN [p \in 1..Len(first) |->
          [key |-> keys[first[p]], value |-> values[LastWith(keys, n, keys[first[p]])]]]

\* dict.values()
DictValues(items) == [p \in 1..Len(items) |-> items[p].value]

\* the dict as a function of its keys
AsDict(items) ==
    [key \in {items[p].key : p \in 1..Len(items)} |->
        items[CHOOSE p \in 1..Len(items) : items[p].key = key].value]

\* np.concatenate of a list of arrays
RECURSIVE Concatenate(_)
Concatenate(arrays) ==
    IF arrays = <<>> THEN <<>>
    ELSE Head(arrays) \o Concatenate(Tail(arrays))

\* data[a:b] with 0 <= a <= b
Slice(data, a, b) ==
    LET stop == Min2(b, Len(data))
    IN IF stop <= a THEN <<>> ELSE [i \in 1..(stop - a) |-> data[a + i]]

\* the 1-based index stored in the file as the 0-based index of the mesh
ZeroBasedKept(i) == i
ZeroBased(i) == i - 1

\* the variable that stores the coordinates of axis a (1, 2, 3)
AxisKey(a) == <<"coordx", "coordy", "coordz">>[a]

\* the points read from the file: the transposed coord variable, or the
\* N x 3 array of zeros with the columns of the stored coordx/y/z filled in
ReadPoints(file) ==
    IF "coord" \in DOMAIN file
    THEN [n \in 1..Len(file.coord[1]) |->
            [a \in 1..Len(file.coord) |-> file.coord[a][n]]]
    ELSE [n \in 1..file.num_nodes |->
            [a \in 1..3 |-> IF AxisKey(a) \in DOMAIN file THEN file[AxisKey(a)][n] ELSE 0]]

\* np.column_stack of per-point arrays
ColumnStack(arrays) ==
    [n \in 1..Len(arrays[1]) |-> [c \in 1..Len(arrays) |-> arrays[c][n]]]

\* point_data built from the groups of _categorize and pd (index -> array):
\* singles first, then doubles, then triples, a later name replacing an
\* earlier equal one
ReadPointData(g, pd) ==
    LET items == [q \in 1..Len(g.single) |->
                    [key |-> g.single[q][1], value |-> pd[g.single[q][2]]]]
                 \o [q \in 1..Len(g.double) |->
                       [key |-> g.double[q][1],
                        value |-> ColumnStack(<<pd[g.double[q][2]], pd[g.double[q][3]]>>)]]
                 \o [q \in 1..Len(g.triple) |->
                       [key |-> g.triple[q][1],
                        value |-> ColumnStack(<<pd[g.triple[q][2]], pd[g.triple[q][3]],
                                                pd[g.triple[q][4]]>>)]]
    IN AsDict(ZipDict([q \in 1..Len(items) |-> items[q].key],
                      [q \in 1..Len(items) |-> items[q].value]))

\* the positions the groups of _categorize refer to
GroupIndices(g) ==
    {g.single[q][2] : q \in 1..Len(g.single)}
    \cup UNION {{g.double[q][2], g.double[q][3]} : q \in 1..Len(g.double)}
    \cup UNION {{g.triple[q][2], g.triple[q][3], g.triple[q][4]} : q \in 1..Len(g.triple)}

\* read_exodus(filename, use_set_names): points, cells, point data, cell
\* data, cell sets and point sets
read_exodus(file, flag) ==
    IF \E k \in 1..Len(file.blocks) :
           Upper(file.blocks[k].type) \notin DOMAIN exodus_to_meshio_type
    THEN Raise("KeyError")
    ELSE
    LET nb == Len(file.blocks)
        \* pd[idx] = value[0]; single, double, triple = _categorize(names)
        nod == StoredOr(file, "vals_nod_var", <<>>)
        pd == AsDict(ZipDict([v \in 1..Len(nod) |-> nod[v].idx - 1],
                             [v \in 1..Len(nod) |-> nod[v].values]))
        groups == _categorize(StoredOr(file, "name_nod_var", <<>>))
    IN
    IF ~groups.ok THEN groups
    ELSE IF ~(GroupIndices(groups.val) \subseteq DOMAIN pd) THEN Raise("KeyError")
    ELSE
    LET point_data == ReadPointData(groups.val, pd)
        cells == [k \in 1..nb |->
                    [type |-> exodus_to_meshio_type[Upper(file.blocks[k].type)],
                     data |-> [e \in 1..Len(file.blocks[k].data) |->
                                 [j \in 1..Len(file.blocks[k].data[e]) |->
                                     ZeroBased(file.blocks[k].data[e][j])]]]]
        \* cell_sets[str(len(cell_sets) + 1)] = arange(running, running + n)
        ranges == [k \in 1..nb |->
                     CumCount(cells, k - 1)..(CumCount(cells, k) - 1)]
        ns == [i \in 1..Len(file.node_ns) |-> {ZeroBased(n) : n \in file.node_ns[i]}]
        \* cd[idx][block] = value[0], then cd[k] = np.concatenate(...)
        stored == StoredOr(file, "vals_elem_var", <<>>)
        idxs == [v \in 1..Len(stored) |-> stored[v].idx - 1]
        cd == ZipDict(idxs, idxs)
        OfIdx(idx) == SelectSeq(stored, LAMBDA v : v.idx - 1 = idx)
        merged == [p \in 1..Len(cd) |->
                     Concatenate(DictValues(ZipDict(
                         [v \in 1..Len(OfIdx(cd[p].key)) |-> OfIdx(cd[p].key)[v].block - 1],
                         [v \in 1..Len(OfIdx(cd[p].key)) |-> OfIdx(cd[p].key)[v].values])))]
        cell_data_names == StoredOr(file, "name_elem_var", <<>>)
        nd == Min2(Len(cell_data_names), Len(merged))
        Slices(name, k) ==
            LET with == SelectSeq([i \in 1..nd |-> i],
                                  LAMBDA i : cell_data_names[i] = name)
            IN [q \in 1..Len(with) |->
                  Slice(merged[with[q]], CumCount(cells, k - 1), CumCount(cells, k))]
        cell_data == [name \in (IF nb = 0 THEN {} ELSE {cell_data_names[i] : i \in 1..nd}) |->
                        Concatenate([k \in 1..nb |-> Slices(name, k)])]
        \* the sets keyed by str(id), then (use_set_names) by name
        ns_ids == file.ns_prop1
        eb_ids == file.eb_prop1
        ns_names == StoredOr(file, "ns_names", <<>>)
        eb_names == StoredOr(file, "eb_names", <<>>)
        point_sets_by_id == ZipDict([i \in 1..Len(ns_ids) |-> KeyOf(ns_ids[i])], ns)
        cell_sets_by_id == ZipDict([i \in 1..Len(eb_ids) |-> KeyOf(eb_ids[i])], ranges)
        point_sets == IF flag
                      THEN ZipDict([i \in 1..Len(ns_names) |-> <<ns_names[i]>>], ns)
                      ELSE point_sets_by_id
        cell_sets == IF flag
                     THEN ZipDict([i \in 1..Len(eb_names) |-> <<eb_names[i]>>],
                                  DictValues(cell_sets_by_id))
                     ELSE cell_sets_by_id
    IN Ok(Mesh(Len(ReadPoints(file)), cells, point_data, FALSE, <<>>, AsDict(point_sets),
               AsDict(cell_sets))
          @@ [points |-> ReadPoints(file), cell_data |-> cell_data])

\* lnmmeshio.read_mesh of a vtu file: the stored arrays as they are
read_mesh(file) ==
    Ok(Mesh(file.num_nodes, file.blocks, file.point_data, file.has_block_id,
            file.block_id, <<>>, <<>>))

\* Mesh.copy(): a deep copy, a new object holding the content of objects[ref]
MeshCopyAliased(objects, ref) == [heap |-> objects, ref |-> ref]
MeshCopy(objects, ref) == [heap |-> Append(objects, objects[ref]), ref |-> Len(objects) + 1]

\* switch_node_order: blocks of a type outside the table pass unchanged
switch_node_order(mesh_exo) ==
    [mesh_exo EXCEPT !.cells =
        [k \in 1..Len(mesh_exo.cells) |->
            IF mesh_exo.cells[k].type \in special_node_order_types
            THEN [mesh_exo.cells[k] EXCEPT !.data =
                    [el_id \in 1..Len(mesh_exo.cells[k].data) |->
                        TakeNodes(TakeNodes(mesh_exo.cells[k].data[el_id],
                                            hexahedron27_dis_mapping),
                                  hexahedron27_vtu_mapping)]]
            ELSE mesh_exo.cells[k]]]

postprocess_exo_mesh(mesh) == switch_node_order(mesh)

\* a point_data name is the sequence of its pieces, "point_set_" being one
StartsWithPointSet(name) == Len(name) > 0 /\ name[1] = "point_set_"
StripPointSetKept(name) == name
\* old_key.replace("point_set_", "")
StripPointSet(name) == SelectSeq(name, LAMBDA p : p # "point_set_")

\* postprocess_vtu_mesh
postprocess_vtu_mesh(mesh) ==
    LET keys_to_rename == {n \in DOMAIN mesh.point_data : StartsWithPointSet(n)}
        new_keys == {StripPointSet(n) : n \in keys_to_rename}
        \* later writes of the same new key overwrite earlier ones
        source(key) == CHOOSE n \in keys_to_rename : StripPointSet(n) = key
        point_sets == [key \in new_keys |->
                         {i \in DOMAIN mesh.point_data[source(key)] :
                              mesh.point_data[source(key)][i] = 1}]
        point_data == [n \in (DOMAIN mesh.point_data) \ keys_to_rename |->
                          mesh.point_data[n]]
        \* copy_mesh.cell_data["block_id"][0]
        cell_data_block_id == mesh.block_id[1]
        unique_block_ids == {cell_data_block_id[i] : i \in 1..Len(cell_data_block_id)}
        cell_sets == IF mesh.has_block_id
                     THEN [key \in {KeyOf(bid) : bid \in unique_block_ids} |->
                             {i - 1 : i \in {j \in 1..Len(cell_data_block_id) :
                                              KeyOf(cell_data_block_id[j]) = key}}]
                     ELSE <<>>
    IN Mesh(mesh.num_points, mesh.cells, point_data, mesh.has_block_id,
            mesh.block_id, point_sets, cell_sets)

\* ------------------------------------------------------ the discretization
EmptyLists(n) == [i \in 0..(n - 1) |-> <<>>]

\* the four nodeset lists of every node, and the elements in block order
Discretization(nodesets, elements) == [nodesets |-> nodesets, elements |-> elements]

NoDis ==
    Discretization([pointnodesets |-> <<>>, linenodesets |-> <<>>,
                    surfacenodesets |-> <<>>, volumenodesets |-> <<>>], <<>>)

\* the cells of a mesh in the contiguous numbering, as (block, position) pairs
RECURSIVE CellList(_, _)
CellList(cells, k) ==
    IF k = 0 THEN <<>>
    ELSE CellList(cells, k - 1) \o
         [e \in 1..Len(cells[k].data) |-> [block |-> k, pos |-> e]]

\* lnmmeshio.mesh2Discretization: one node per point, no nodeset on any node,
\* one element per cell with the 0-based index of its cell block as GROUP_ID
\* and no material
mesh2Discretization(mesh) ==
    LET cl == CellList(mesh.cells, Len(mesh.cells))
    IN Discretization(
           [pointnodesets |-> EmptyLists(mesh.num_points),
            linenodesets |-> EmptyLists(mesh.num_points),
            surfacenodesets |-> EmptyLists(mesh.num_points),
            volumenodesets |-> EmptyLists(mesh.num_points)],
           [e \in 1..Len(cl) |-> [GROUP_ID |-> cl[e].block - 1, MAT |-> -1]])

\* FourCGeometry.get_all_nodes_in_element_block: the node tuple picked for
\* one element id of the cell set
NodesOfElement(mesh, el_id) ==
    LET nb == Len(mesh.cells)
        \* np.searchsorted(cum_el_counts, el_id, side="right")
        block_index == Cardinality({k \in 1..nb : CumCount(mesh.cells, k) <= el_id})
        rel_el_id == IF block_index = 0 THEN el_id
                     ELSE el_id - CumCount(mesh.cells, block_index)
        i == rel_el_id - 1
    IN IF block_index >= nb THEN Raise("IndexError")
       ELSE LET n == Len(mesh.cells[block_index + 1].data)
            IN IF i >= n \/ i < -n THEN Raise("IndexError")
               ELSE Ok(mesh.cells[block_index + 1].data[(IF i < 0 THEN i + n ELSE i) + 1])

get_all_nodes_in_element_block(mesh, element_block_id) ==
    IF KeyOf(element_block_id) \notin DOMAIN mesh.cell_sets THEN Raise("KeyError")
    ELSE
    LET all_el_ids == mesh.cell_sets[KeyOf(element_block_id)]
        picked == {NodesOfElement(mesh, el_id) : el_id \in all_el_ids}
    IN IF \E r \in picked : ~r.ok THEN Raise("IndexError")
       \* np.unique of node tuples of different lengths
       ELSE IF Cardinality({Len(r.val) : r \in picked}) > 1 THEN Raise("ValueError")
       ELSE Ok(UNION {SeqRange(r.val) : r \in picked})

\* the geometry type of a design-condition section, "" when it names none
GeometryTypeOf(dsect_name) ==
    IF ContainsBlankWordBlank(dsect_name, "POINT") THEN "point"
    ELSE IF ContainsBlankWordBlank(dsect_name, "LINE") THEN "line"
    ELSE IF ContainsBlankWordBlank(dsect_name, "SURF") THEN "surf"
    ELSE IF ContainsBlankWordBlank(dsect_name, "VOL") THEN "vol"
    ELSE ""

\* a design-condition item: E, and ENTITY_TYPE when the item has the key
Item(E, hasType, type) == [E |-> E, hasType |-> hasType, type |-> type]

\* variant: an item of ENTITY_TYPE legacy_id is resolved like node_set_id
CondNodesLegacyAllowed(mesh, entity) ==
    IF ~entity.hasType THEN Raise("entity_type_missing")
    ELSE IF entity.type \in {"node_set_id", "legacy_id"}
         THEN IF KeyOf(entity.E) \in DOMAIN mesh.point_sets
              THEN Ok(mesh.point_sets[KeyOf(entity.E)])
              ELSE Raise("KeyError")
    ELSE IF entity.type = "element_block_id"
         THEN get_all_nodes_in_element_block(mesh, entity.E)
    ELSE Raise("unsupported_entity_type")

\* the nodes an item refers to (lines 655-678)
CondNodes(mesh, entity) ==
    IF ~entity.hasType THEN Raise("entity_type_missing")
    ELSE IF entity.type = "legacy_id" THEN Raise("legacy_id_unsupported")
    ELSE IF entity.type = "node_set_id"
         THEN IF KeyOf(entity.E) \in DOMAIN mesh.point_sets
              THEN Ok(mesh.point_sets[KeyOf(entity.E)])
              ELSE Raise("KeyError")
    ELSE IF entity.type = "element_block_id"
         THEN get_all_nodes_in_element_block(mesh, entity.E)
    ELSE Raise("unsupported_entity_type")

\* <list>.append(<Nodeset>(id=str(entity_number))) on every node of the set
AppendTo(lists, all_cond_nodes, tag) ==
    [n \in DOMAIN lists |->
        IF n \in all_cond_nodes THEN Append(lists[n], tag) ELSE lists[n]]

\* variant: the tags of LINE conditions go to the surface list
AddNodesetsLineAsSurf(nodesets, geometry_type, all_cond_nodes, entity_number) ==
    IF \E n \in all_cond_nodes : n \notin DOMAIN nodesets.pointnodesets
    THEN Raise("IndexError")
    ELSE IF geometry_type = "point"
    THEN Ok([nodesets EXCEPT !.pointnodesets =
                AppendTo(@, all_cond_nodes, KeyOf(entity_number))])
    ELSE IF geometry_type \in {"line", "surf"}
    THEN Ok([nodesets EXCEPT !.surfacenodesets =
                AppendTo(@, all_cond_nodes, KeyOf(entity_number))])
    ELSE IF geometry_type = "vol"
    THEN Ok([nodesets EXCEPT !.volumenodesets =
                AppendTo(@, all_cond_nodes, KeyOf(entity_number))])
    ELSE Raise("unsupported_geometry_type")

\* lines 680-707: the list that takes the tag is chosen by the geometry type
AddNodesets(nodesets, geometry_type, all_cond_nodes, entity_number) ==
    IF \E n \in all_cond_nodes : n \notin DOMAIN nodesets.pointnodesets
    THEN Raise("IndexError")
    ELSE IF geometry_type = "point"
    THEN Ok([nodesets EXCEPT !.pointnodesets =
                AppendTo(@, all_cond_nodes, KeyOf(entity_number))])
    ELSE IF geometry_type = "line"
    THEN Ok([nodesets EXCEPT !.linenodesets =
                AppendTo(@, all_cond_nodes, KeyOf(entity_number))])
    ELSE IF geometry_type = "surf"
    THEN Ok([nodesets EXCEPT !.surfacenodesets =
                AppendTo(@, all_cond_nodes, KeyOf(entity_number))])
    ELSE IF geometry_type = "vol"
    THEN Ok([nodesets EXCEPT !.volumenodesets =
                AppendTo(@, all_cond_nodes, KeyOf(entity_number))])
    ELSE Raise("unsupported_geometry_type")

\* the loop over the items of one design-condition section
RECURSIVE EnhanceItems(_, _, _, _)
EnhanceItems(mesh, geometry_type, items, nodesets) ==
    IF items = <<>> THEN Ok(nodesets)
    ELSE LET all_cond_nodes == CondNodes(mesh, Head(items))
         IN IF ~all_cond_nodes.ok THEN all_cond_nodes
            ELSE LET added == AddNodesets(nodesets, geometry_type,
                                          all_cond_nodes.val, Head(items).E)
                 IN IF ~added.ok THEN added
                    ELSE EnhanceItems(mesh, geometry_type, Tail(items), added.val)

\* the loop over the design-condition sections (lines 626-707)
RECURSIVE EnhanceDesignSections(_, _, _, _)
EnhanceDesignSections(yaml, mesh, names, nodesets) ==
    IF names = <<>> THEN Ok(nodesets)
    ELSE IF GeometryTypeOf(Head(names)) = "" THEN Raise("no_geometric_reference")
    ELSE LET done == EnhanceItems(mesh, GeometryTypeOf(Head(names)),
                                  yaml[Head(names)].items, nodesets)
         IN IF ~done.ok THEN done
            ELSE EnhanceDesignSections(yaml, mesh, Tail(names), done.val)

\* an ELEMENT_BLOCKS entry: ID and the MAT of its element type
BlockDecl(ID, MAT) == [ID |-> ID, MAT |-> MAT]

\* variant: the declared ID is compared with GROUP_ID as it is
SetMaterialSameNumbering(elements, eb) ==
    [e \in DOMAIN elements |->
        IF elements[e].GROUP_ID = eb.ID
        THEN [elements[e] EXCEPT !.MAT = eb.MAT] ELSE elements[e]]

\* lines 751-757: the material goes to the elements of the declared block
SetMaterial(elements, eb) ==
    [e \in DOMAIN elements |->
        IF elements[e].GROUP_ID = eb.ID - 1
        THEN [elements[e] EXCEPT !.MAT = eb.MAT] ELSE elements[e]]

RECURSIVE EnhanceBlocks(_, _)
EnhanceBlocks(blocks, elements) ==
    IF blocks = <<>> THEN elements
    ELSE EnhanceBlocks(Tail(blocks), SetMaterial(elements, Head(blocks)))

\* the loop over the geometry sections (lines 709-763)
RECURSIVE EnhanceGeometrySections(_, _, _)
EnhanceGeometrySections(yaml, names, elements) ==
    IF names = <<>> THEN Ok(elements)
    ELSE IF ~yaml[Head(names)].hasBlocks THEN Raise("KeyError")
    ELSE EnhanceGeometrySections(yaml, Tail(names),
             EnhanceBlocks(yaml[Head(names)].blocks, elements))

\* FourCGeometry.enhance_dis_with_fourc_yaml_info
enhance_dis_with_fourc_yaml_info(yaml, mesh, dis) ==
    LET all_design_sections ==
            SelectSeq(SectionsOf(yaml), LAMBDA sec : ContainsWordBlank(sec, "DESIGN"))
        nodesets == EnhanceDesignSections(yaml, mesh, all_design_sections, dis.nodesets)
        all_geometry_section_names ==
            SelectSeq(SectionsOf(yaml), LAMBDA k : EndsWith(k, "GEOMETRY"))
    IN IF ~nodesets.ok THEN nodesets
       ELSE IF all_geometry_section_names = <<>> THEN Raise("no_geometry_section")
       ELSE LET elements == EnhanceGeometrySections(yaml, all_geometry_section_names,
                                                    dis.elements)
            IN IF ~elements.ok THEN elements
               ELSE Ok(Discretization(nodesets.val, elements.val))

\* "dpoint{0}".format(dp.id): the name of a data field, in pieces
DataName(prefix, id) == <<prefix>> \o id

\* the data fields of the nodes and elements of a discretization
DisData(node_data, element_data) ==
    [node_data |-> node_data, element_data |-> element_data]
NoData == DisData(<<>>, <<>>)

\* the condition fields written on node n (lines 798-812)
ConditionNames(ns, n) ==
    {DataName("dpoint", ns.pointnodesets[n][i]) : i \in 1..Len(ns.pointnodesets[n])}
    \cup {DataName("dline", ns.linenodesets[n][i]) : i \in 1..Len(ns.linenodesets[n])}
    \cup {DataName("dsurf", ns.surfacenodesets[n][i]) :
              i \in 1..Len(ns.surfacenodesets[n])}
    \cup {DataName("dvol", ns.volumenodesets[n][i]) :
              i \in 1..Len(ns.volumenodesets[n])}

\* the data of one element (lines 815-821): "MAT" in ele.options is MAT # -1
ElementData(elements, e) ==
    [k \in {<<"element-id">>}
           \cup (IF elements[e].MAT # -1 THEN {<<"element-material">>} ELSE {}) |->
        IF k = <<"element-id">> THEN e ELSE elements[e].MAT]

\* variant: a condition field is written on every node, 0 where it does not
\* apply
prepare_dis_writes_zeros(dis) ==
    LET ns == dis.nodesets
        every == UNION {ConditionNames(ns, m) : m \in DOMAIN ns.pointnodesets}
    IN DisData(
           [n \in DOMAIN ns.pointnodesets |->
               [k \in {<<"node-id">>, <<"node-coords">>} \cup every |->
                   IF k = <<"node-id">> THEN n + 1
                   ELSE IF k = <<"node-coords">> THEN n
                   ELSE IF k \in ConditionNames(ns, n) THEN 1 ELSE 0]],
           [e \in DOMAIN dis.elements |-> ElementData(dis.elements, e)])

\* FourCGeometry.prepare_dis_for_vtu_output: the value 1.0 is written as 1;
\* compute_ids(zero_based=False) numbers nodes and elements from 1; the
\* coordinates of a point are stood for by its index
prepare_dis_for_vtu_output(dis) ==
    LET ns == dis.nodesets
    IN DisData(
           [n \in DOMAIN ns.pointnodesets |->
               [k \in {<<"node-id">>, <<"node-coords">>} \cup ConditionNames(ns, n) |->
                   IF k = <<"node-id">> THEN n + 1
                   ELSE IF k = <<"node-coords">> THEN n
                   ELSE 1]],
           [e \in DOMAIN dis.elements |-> ElementData(dis.elements, e)])

\* ------------------------------------------------------------ the inputs
\* names of input decks
DeckNames ==
    {<<"case", ".", "4C", ".", "yaml">>, <<"case", ".", "yaml">>,
     <<".", "yaml">>, <<"case">>}
\* names of geometry files a deck may reference
ExoName == <<"mesh", ".", "exo">>
VtuName == <<"mesh", ".", "vtu">>
GeometryFileNames == {ExoName, VtuName, <<"mesh", ".", "e">>, <<"mesh", ".", "txt">>}

\* the kind of content a geometry file of a given name holds
KindOf(name) == IF PathSuffix(name) \in VTU_FILE_SUFFIXES THEN "vtu" ELSE "exo"

\* the chain segments a..b-1 of a mesh, with node indices shifted by base
ChainCells(a, b, base) == [i \in 1..(b - a) |-> <<a + i - 1 + base, a + i + base>>]

NumCells == NumNodes - 1

\* the cell blocks of a mesh whose first block holds the first s segments
ChainBlocks(s, type, base) ==
    IF s = NumCells
    THEN <<[type |-> type, data |-> ChainCells(0, NumCells, base)]>>
    ELSE <<[type |-> type, data |-> ChainCells(0, s, base)],
           [type |-> type, data |-> ChainCells(s, NumCells, base)]>>

\* the per-block lists of a per-cell field given for the cells 1..NumCells
PerBlock(s, field) ==
    IF s = NumCells THEN <<[i \in 1..NumCells |-> field[i]]>>
    ELSE <<[i \in 1..s |-> field[i]], [i \in 1..(NumCells - s) |-> field[s + i]]>>

\* the point_data array that marks the points of a set with 1
Indicator(members) == [n \in Nodes |-> IF n \in members THEN 1 ELSE 0]

\* an Exodus file: blocks split at s, block ids eb, node sets ns (id -> members)
ExoFile(s, eb, ns) ==
    LET ids == SetToSeq(DOMAIN ns)
    IN MeshFile("exo", NumNodes, ChainBlocks(s, "BAR2", 1), eb, ids,
                [i \in 1..Len(ids) |-> {n + 1 : n \in ns[ids[i]]}],
                <<>>, FALSE, <<>>)

\* a vtu file: blocks split at s, block_id field (when stored), point sets ns
VtuFile(s, has_block_id, field, ns) ==
    MeshFile("vtu", NumNodes, ChainBlocks(s, "line", 0), <<>>, <<>>, <<>>,
             [name \in {<<"point_set_", Str(k)>> : k \in DOMAIN ns} |->
                 Indicator(ns[CHOOSE k \in DOMAIN ns : name = <<"point_set_", Str(k)>>])],
             has_block_id, IF has_block_id THEN PerBlock(s, field) ELSE <<>>)

\* the one mesh file used where the deck, not the mesh, is varied: two
\* element blocks (exo) or one cell block carrying several block ids (vtu),
\* node set 1 on the first point and node set 2 on the last
TwoSets == (1 :> {0}) @@ (2 :> {NumNodes - 1})
FixedMeshFile(kind) ==
    IF kind = "exo" THEN ExoFile(1, <<1, 2>>, TwoSets)
    ELSE VtuFile(NumCells, TRUE, [i \in 1..NumCells |-> ((i - 1) % MaxEntity) + 1],
                 TwoSets)

\* the mesh files of the bounded family
MemberSets == {{n} : n \in Nodes} \cup {Nodes}
OneSets == {(k :> m) : k \in Entities, m \in MemberSets}
MeshFiles(kind) ==
    IF kind = "exo"
    THEN {ExoFile(NumCells, <<a>>, ns) : a \in Entities, ns \in OneSets}
         \cup {ExoFile(s, eb, ns) :
                 s \in 1..(NumCells - 1),
                 eb \in {q \in [1..2 -> Entities] : q[1] # q[2]}, ns \in OneSets}
    ELSE {VtuFile(s, FALSE, <<>>, ns) : s \in 1..NumCells, ns \in OneSets}
         \cup {VtuFile(s, TRUE, field, ns) :
                 s \in 1..NumCells, field \in [1..NumCells -> Entities],
                 ns \in OneSets}

\* the ELEMENT_BLOCKS list of the geometry sections considered
OneBlockDecl == <<BlockDecl(1, 1)>>

GeometrySection(file) == Section(TRUE, file, TRUE, OneBlockDecl, <<>>)
\* the geometry sections a deck may hold
GeometrySections ==
    {AbsentSection, Section(FALSE, <<>>, TRUE, OneBlockDecl, <<>>),
     Section(TRUE, ExoName, FALSE, <<>>, <<>>)}
    \cup {GeometrySection(f) : f \in GeometryFileNames}

\* the ELEMENT_BLOCKS lists considered: up to two declarations, of
\* different blocks
BlockDecls == {BlockDecl(id, mat) : id \in Entities, mat \in Entities}
BlockLists ==
    {<<>>} \cup {<<d>> : d \in BlockDecls}
    \cup {<<q[1], q[2]>> : q \in {r \in BlockDecls \X BlockDecls : r[1].ID # r[2].ID}}
\* the block ids an ELEMENT_BLOCKS list declares
DeclaredIds(blocks) == {blocks[i].ID : i \in 1..Len(blocks)}

GoodTypes == {"node_set_id", "element_block_id"}
BadItems == {Item(1, FALSE, ""), Item(1, TRUE, "legacy_id"), Item(1, TRUE, "other")}
\* (section, item) pairs a deck's design-condition sections are built from
DesignPool ==
    {[sec |-> d, item |-> Item(E, TRUE, t)] :
        d \in {DP, DL, DS, DV}, E \in Entities, t \in GoodTypes}
    \cup {[sec |-> DP, item |-> i] : i \in BadItems}
    \cup {[sec |-> DX, item |-> Item(1, TRUE, "node_set_id")]}

\* the deck with geometry sections g1, g2, an ELEMENTS section when el, and
\* the design-condition sections holding the items of design
Yaml(g1, g2, el, design) ==
    [k \in SectionNames |->
        IF k = G1 THEN g1
        ELSE IF k = G2 THEN g2
        ELSE IF k = EL
             THEN (IF el THEN Section(FALSE, <<>>, FALSE, <<>>, <<>>) ELSE AbsentSection)
        ELSE IF \E p \in design : p.sec = k
             THEN Section(FALSE, <<>>, FALSE, <<>>,
                          SetToSeq({p.item : p \in {q \in design : q.sec = k}}))
        ELSE AbsentSection]

\* the file a deck references, <<>> when it references none or is malformed
ReferencedFile(yaml) ==
    LET files == get_geometry_file(yaml)
    IN IF files.ok /\ files.val # <<>> THEN files.val[1] ELSE <<>>

\* ---------------------------------------------------------------- state
VARIABLES
    yaml,             \* the parsed input deck (FourCInput), by section name
    deck_name,        \* file name of the input deck
    call,             \* what the caller constructs, and how
    deck_dir_has_mesh,\* the referenced geometry file lies next to the deck
    temp_dir_has_mesh,\* the referenced geometry file lies in the temp dir
    mesh_file,        \* content of the referenced geometry file
    pc,               \* position in the constructor(s)
    fourc_yaml_file,  \* FourCGeometry._fourc_yaml_file
    first_render,     \* FourCGeometry's first_render argument
    vtu_file_path,    \* FourCGeometry._vtu_file_path
    mesh,             \* FourCGeometry._mesh
    dis,              \* FourCGeometry._dis
    dis_data,         \* the data fields of the nodes and elements of _dis
    state_vtu_path,   \* FourCWebServer.state.vtu_path
    read_in_status,   \* FourCWebServer.state.read_in_status
    include_upload_open, \* FourCWebServer.state.include_upload_open
    stages,           \* history: the pipeline stages entered, in order
    write_calls,      \* history: the paths lnmmeshio.write was called with
    written,          \* history: the paths lnmmeshio.write completed
    lib_failed,       \* history: a library call failed for a reason of its own
    error,            \* the exception that ended a stage, "" when none
    names,            \* the argument of a call of _categorize
    categorized,      \* the result of that call
    use_set_names,    \* the flag of a call of read_exodus
    heap,             \* the Mesh objects of a call of a postprocessing function
    returned,         \* the object that call returned, 0 before it returns
    general_sections, \* FourCWebServer.state.general_sections
    section_names,    \* FourCWebServer.state.section_names
    selected_main_section_name, \* FourCWebServer.state.selected_main_section_name
    selected_section_name,      \* FourCWebServer.state.selected_section_name
    fourc_yaml_content, \* FourCWebServer._server_vars["fourc_yaml_content"]
    deleted,          \* history: the sections click_delete_section_button deleted
    saved_deleted,    \* history: the deleted sections a later save wrote
    cloning_material_map_section, \* FourCWebServer.state.cloning_material_map_section
    master_mat_id,    \* master_mat_id of determine_master_mat_ind_for_material
    matches,          \* matches of determine_master_mat_ind_for_material
    passes            \* passes of its while loop so far, counted up to MaxEntries + 1

vars == <<yaml, deck_name, call, deck_dir_has_mesh, temp_dir_has_mesh, mesh_file,
          pc, fourc_yaml_file, first_render, vtu_file_path, mesh, dis, dis_data,
          state_vtu_path, read_in_status, include_upload_open, stages,
          write_calls, written, lib_failed, error, names, categorized,
          use_set_names, heap, returned, general_sections, section_names,
          selected_main_section_name, selected_section_name, fourc_yaml_content,
          deleted, saved_deleted, cloning_material_map_section, master_mat_id,
          matches, passes>>

postproc == <<heap, returned>>
gui == <<general_sections, section_names, selected_main_section_name,
         selected_section_name, fourc_yaml_content, deleted, saved_deleted>>
mats == <<cloning_material_map_section, master_mat_id, matches, passes>>

inputs == <<yaml, deck_name, call, deck_dir_has_mesh, mesh_file, names, categorized,
            use_set_names, postproc, gui, mats>>
server == <<state_vtu_path, read_in_status, include_upload_open>>

Calls == {"FourCGeometry_first_render", "FourCGeometry", "FourCWebServer"}
TEMP_DIR == "temp_dir"
DECK_DIR == "deck_dir"

\* the state before a constructor is called
Start ==
    /\ pc = "idle"
    /\ fourc_yaml_file = <<>>
    /\ first_render = FALSE
    /\ vtu_file_path = <<>>
    /\ mesh = NoMesh
    /\ dis = NoDis
    /\ dis_data = NoData
    /\ state_vtu_path = <<>>
    /\ read_in_status = "success"
    /\ include_upload_open = FALSE
    /\ stages = <<>>
    /\ write_calls = <<>>
    /\ written = {}
    /\ lib_failed = FALSE
    /\ error = ""

\* decks of every shape in their geometry and ELEMENTS sections, without
\* design conditions
InitDecks ==
    /\ \E g1 \in GeometrySections, g2 \in GeometrySections, el \in BOOLEAN :
           yaml = Yaml(g1, g2, el, {})
    /\ deck_name \in DeckNames
    /\ call \in Calls
    /\ deck_dir_has_mesh \in BOOLEAN
    /\ temp_dir_has_mesh \in BOOLEAN
    /\ mesh_file = FixedMeshFile(KindOf(ReferencedFile(yaml)))

\* decks with up to MaxItems design-condition items, on a fixed mesh (and
\* legacy decks with the same design conditions)
InitDesign ==
    /\ \E design \in UpTo(DesignPool, MaxItems) :
           \/ \E f \in {ExoName, VtuName} :
                  yaml = Yaml(GeometrySection(f), AbsentSection, FALSE, design)
           \/ yaml = Yaml(AbsentSection, AbsentSection, TRUE, design)
    /\ deck_name = <<"case", ".", "4C", ".", "yaml">>
    /\ call = "FourCGeometry_first_render"
    /\ deck_dir_has_mesh = TRUE
    /\ temp_dir_has_mesh = FALSE
    /\ mesh_file = FixedMeshFile(KindOf(ReferencedFile(yaml)))

\* one design-condition item on every mesh of the bounded family
InitMeshes ==
    /\ \E f \in {ExoName, VtuName}, E \in Entities, t \in GoodTypes :
           yaml = Yaml(GeometrySection(f), AbsentSection, FALSE,
                       {[sec |-> DS, item |-> Item(E, TRUE, t)]})
    /\ deck_name = <<"case", ".", "4C", ".", "yaml">>
    /\ call = "FourCGeometry_first_render"
    /\ deck_dir_has_mesh = TRUE
    /\ temp_dir_has_mesh = FALSE
    /\ mesh_file \in MeshFiles(KindOf(ReferencedFile(yaml)))

\* decks with every ELEMENT_BLOCKS list, in one or two GEOMETRY sections, on
\* meshes of one and of two cell blocks
InitBlocks ==
    /\ \E f \in {ExoName, VtuName}, b1 \in BlockLists :
           \/ yaml = Yaml(Section(TRUE, f, TRUE, b1, <<>>), AbsentSection, FALSE, {})
           \/ \E b2 \in {b \in BlockLists : DeclaredIds(b) \cap DeclaredIds(b1) = {}} :
                  yaml = Yaml(Section(TRUE, f, TRUE, b1, <<>>),
                              Section(TRUE, f, TRUE, b2, <<>>), FALSE, {})
    /\ deck_name = <<"case", ".", "4C", ".", "yaml">>
    /\ call = "FourCGeometry_first_render"
    /\ deck_dir_has_mesh = TRUE
    /\ temp_dir_has_mesh = FALSE
    /\ mesh_file \in
           IF KindOf(ReferencedFile(yaml)) = "exo"
           THEN {ExoFile(NumCells, <<1>>, TwoSets)}
                \cup {ExoFile(s, <<1, 2>>, TwoSets) : s \in 1..(NumCells - 1)}
           ELSE {VtuFile(s, FALSE, <<>>, TwoSets) : s \in 1..NumCells}

\* the result variable of a function that has not been called
NotCalled == Raise("not_called")

\* the constructors are called; _categorize and read_exodus are reached
\* through the pipeline only, with use_set_names at its default
NoPostprocess == heap = <<>> /\ returned = 0
NoGui ==
    /\ general_sections = <<>>
    /\ section_names = <<>>
    /\ selected_main_section_name = <<>>
    /\ selected_section_name = <<>>
    /\ fourc_yaml_content = <<>>
    /\ deleted = {}
    /\ saved_deleted = {}
NoMaterialLookup ==
    /\ cloning_material_map_section = <<>>
    /\ master_mat_id = 0
    /\ matches = <<>>
    /\ passes = 0

NoDirectCall ==
    /\ names = <<>>
    /\ categorized = NotCalled
    /\ use_set_names = FALSE
    /\ NoPostprocess
    /\ NoGui
    /\ NoMaterialLookup

Init == Start /\ NoDirectCall /\ (InitDecks \/ InitDesign \/ InitMeshes \/ InitBlocks)

\* --------------------------------------------------------------- actions
\* variant: the except clause returns without resetting the path
ConversionFailedKeepsPath(exc) ==
    /\ UNCHANGED vtu_file_path
    /\ error' = exc
    /\ pc' = "returned"

\* the except clauses of FourCGeometry.__init__ (lines 508-512, 546-550)
ConversionFailed(exc) ==
    /\ vtu_file_path' = <<>>
    /\ error' = exc
    /\ pc' = "returned"

\* FourCGeometry(fourc_yaml_file, temp_dir, first_render), lines 495-500
GeometryInit ==
    /\ pc = "idle"
    /\ call \in {"FourCGeometry_first_render", "FourCGeometry"}
    /\ fourc_yaml_file' = PathJoin(DECK_DIR, deck_name)
    /\ first_render' = (call = "FourCGeometry_first_render")
    /\ vtu_file_path' = VtuPathFor(TEMP_DIR, PathJoin(DECK_DIR, deck_name))
    /\ pc' = "detect"
    /\ UNCHANGED <<dis_data, inputs, temp_dir_has_mesh, mesh, dis, server, stages,
                   write_calls, written, lib_failed, error>>

\* the dispatch on self.geom_type, lines 503 and 513
DetectGeometryType ==
    /\ pc = "detect"
    /\ LET t == geom_type(yaml)
       IN IF ~t.ok THEN pc' = "raised" /\ error' = t.val
          ELSE /\ error' = error
               /\ pc' = IF t.val = "legacy" THEN "legacy_read" ELSE "ext_locate"
    /\ stages' = Append(stages, "detect")
    /\ UNCHANGED <<dis_data, inputs, temp_dir_has_mesh, fourc_yaml_file, first_render,
                   vtu_file_path, mesh, dis, server, write_calls, written,
                   lib_failed>>

\* self._dis = read(str(fourc_yaml_file)), line 506
LegacyRead ==
    /\ pc = "legacy_read"
    /\ stages' = Append(stages, "legacy_read")
    /\ \/ pc' = "legacy_export" /\ UNCHANGED <<vtu_file_path, error, lib_failed>>
       \/ ConversionFailed("read") /\ lib_failed' = TRUE
    /\ UNCHANGED <<dis_data, inputs, temp_dir_has_mesh, fourc_yaml_file, first_render,
                   mesh, dis, server, write_calls, written>>

\* convert_dis_to_vtu: prepare_dis_for_vtu_output, then write
ConvertDisToVtu ==
    \/ \* prepare_dis_for_vtu_output raises
       /\ ConversionFailed("prepare") /\ lib_failed' = TRUE
       /\ UNCHANGED <<write_calls, written, dis_data>>
    \/ \* write raises
       /\ dis_data' = prepare_dis_for_vtu_output(dis)
       /\ write_calls' = Append(write_calls, vtu_file_path)
       /\ ConversionFailed("write") /\ lib_failed' = TRUE
       /\ UNCHANGED written
    \/ /\ dis_data' = prepare_dis_for_vtu_output(dis)
       /\ write_calls' = Append(write_calls, vtu_file_path)
       /\ written' = written \cup {vtu_file_path}
       /\ pc' = "returned"
       /\ UNCHANGED <<vtu_file_path, error, lib_failed>>

\* self.convert_dis_to_vtu(), line 507
LegacyExport ==
    /\ pc = "legacy_export"
    /\ stages' = Append(stages, "export")
    /\ ConvertDisToVtu
    /\ UNCHANGED <<inputs, temp_dir_has_mesh, fourc_yaml_file, first_render,
                   mesh, dis, server>>

\* whether self._mesh_file exists, lines 516-527
MeshFileExists ==
    IF first_render
    THEN (IF fourc_yaml_file[1] = DECK_DIR THEN deck_dir_has_mesh ELSE temp_dir_has_mesh)
    ELSE temp_dir_has_mesh

LocateMesh ==
    /\ pc = "ext_locate"
    /\ stages' = Append(stages, "locate")
    /\ LET files == get_geometry_file(yaml)
       IN IF ~files.ok THEN ConversionFailed(files.val)
          ELSE IF files.val = <<>> THEN ConversionFailed("IndexError")
          ELSE IF ~MeshFileExists THEN ConversionFailed("mesh_file_missing")
          ELSE pc' = "ext_read" /\ UNCHANGED <<vtu_file_path, error>>
    /\ UNCHANGED <<dis_data, inputs, temp_dir_has_mesh, fourc_yaml_file, first_render,
                   mesh, dis, server, write_calls, written, lib_failed>>

\* read_geom_mesh, first half: the reader chosen by the suffix (lines 40-52)
ReadBySuffix(name, file) ==
    IF PathSuffix(name) \in EXODUS_FILE_SUFFIXES
    THEN (IF file.kind = "exo" THEN read_exodus(file, FALSE) ELSE Raise("not_an_exodus_file"))
    ELSE IF PathSuffix(name) \in VTU_FILE_SUFFIXES
    THEN (IF file.kind = "vtu" THEN read_mesh(file) ELSE Raise("not_a_vtu_file"))
    ELSE Raise("unsupported_file_format")

\* variant: the node order is corrected whatever the format
PostprocessStageAlwaysSwitch(name) == "switch_node_order"

\* read_geom_mesh, second half: which postprocessing goes with the reader
PostprocessStage(name) ==
    IF PathSuffix(name) \in EXODUS_FILE_SUFFIXES THEN "switch_node_order"
    ELSE "postprocess_vtu"

PostprocessBySuffix(name, m) ==
    IF PostprocessStage(name) = "switch_node_order"
    THEN postprocess_exo_mesh(m)
    ELSE postprocess_vtu_mesh(m)

ReadMesh ==
    /\ pc = "ext_read"
    /\ stages' = Append(stages, "read_mesh")
    /\ \/ /\ UNCHANGED lib_failed
          /\ LET m == ReadBySuffix(ReferencedFile(yaml), mesh_file)
             IN IF m.ok
                THEN /\ mesh' = m.val
                     /\ pc' = "ext_post"
                     /\ UNCHANGED <<vtu_file_path, error>>
                ELSE ConversionFailed(m.val) /\ UNCHANGED mesh
       \/ ConversionFailed("read") /\ lib_failed' = TRUE /\ UNCHANGED mesh
    /\ UNCHANGED <<dis_data, inputs, temp_dir_has_mesh, fourc_yaml_file, first_render,
                   dis, server, write_calls, written>>

PostprocessMesh ==
    /\ pc = "ext_post"
    /\ stages' = Append(stages, PostprocessStage(ReferencedFile(yaml)))
    /\ mesh' = PostprocessBySuffix(ReferencedFile(yaml), mesh)
    /\ pc' = "ext_convert"
    /\ UNCHANGED <<dis_data, inputs, temp_dir_has_mesh, fourc_yaml_file, first_render,
                   vtu_file_path, dis, server, write_calls, written,
                   lib_failed, error>>

\* self._dis = mesh2Discretization(mesh=self._mesh), line 533
ConvertMesh ==
    /\ pc = "ext_convert"
    /\ stages' = Append(stages, "mesh_to_dis")
    /\ \/ /\ dis' = mesh2Discretization(mesh)
          /\ pc' = "ext_enrich"
          /\ UNCHANGED <<vtu_file_path, error, lib_failed>>
       \/ ConversionFailed("mesh2Discretization") /\ lib_failed' = TRUE
          /\ UNCHANGED dis
    /\ UNCHANGED <<dis_data, inputs, temp_dir_has_mesh, fourc_yaml_file, first_render,
                   mesh, server, write_calls, written>>

\* self.enhance_dis_with_fourc_yaml_info(), line 536
Enrich ==
    /\ pc = "ext_enrich"
    /\ stages' = Append(stages, "enrich")
    /\ LET d == enhance_dis_with_fourc_yaml_info(yaml, mesh, dis)
       IN IF d.ok
          THEN dis' = d.val /\ pc' = "ext_export" /\ UNCHANGED <<vtu_file_path, error>>
          ELSE ConversionFailed(d.val) /\ UNCHANGED dis
    /\ UNCHANGED <<dis_data, inputs, temp_dir_has_mesh, fourc_yaml_file, first_render,
                   mesh, server, write_calls, written, lib_failed>>

\* self.convert_dis_to_vtu(), line 539
Export ==
    /\ pc = "ext_export"
    /\ stages' = Append(stages, "export")
    /\ ConvertDisToVtu
    /\ UNCHANGED <<inputs, temp_dir_has_mesh, fourc_yaml_file, first_render,
                   mesh, dis, server>>

\* fourc_yaml_file["name"].split(".")[-1]
AfterLastDot(name) == SubSeq(name, RFindDot(name) + 1, Len(name))
InputFileEndings == {<<"yaml">>, <<"yml">>, <<"DAT">>, <<"dat">>}

\* FourCWebServer(fourc_yaml_file): __init__, change_fourc_yaml_file,
\* request_included_files, append_include_files, confirm_included_files and
\* init_pyvista_render_objects up to its call of FourCGeometry
ServerInit ==
    /\ pc = "idle"
    /\ call = "FourCWebServer"
    /\ LET files == get_geometry_file(yaml)
           CallGeometry ==
               /\ fourc_yaml_file' = PathJoin(TEMP_DIR, deck_name)
               /\ vtu_file_path' = VtuPathFor(TEMP_DIR, PathJoin(TEMP_DIR, deck_name))
               /\ pc' = "detect"
               /\ UNCHANGED <<include_upload_open, error>>
       IN IF AfterLastDot(deck_name) \notin InputFileEndings
          THEN \* change_fourc_yaml_file returns at once (line 1174)
               /\ pc' = "srv_done"
               /\ UNCHANGED <<temp_dir_has_mesh, fourc_yaml_file, vtu_file_path,
                              include_upload_open, error>>
          ELSE IF ~files.ok
          THEN /\ pc' = "srv_raised" /\ error' = files.val
               /\ UNCHANGED <<temp_dir_has_mesh, fourc_yaml_file, vtu_file_path,
                              include_upload_open>>
          ELSE IF files.val = <<>>
          THEN \* get_geometry_file(...)[0] of an empty list (line 1073)
               /\ pc' = "srv_raised" /\ error' = "IndexError"
               /\ UNCHANGED <<temp_dir_has_mesh, fourc_yaml_file, vtu_file_path,
                              include_upload_open>>
          ELSE IF deck_dir_has_mesh
          THEN \* shutil.copyfile into the temp dir (line 1052)
               temp_dir_has_mesh' = TRUE /\ CallGeometry
          ELSE IF ~temp_dir_has_mesh
          THEN \* the upload dialog is opened and the constructor returns
               /\ include_upload_open' = TRUE
               /\ pc' = "srv_waiting"
               /\ UNCHANGED <<temp_dir_has_mesh, fourc_yaml_file, vtu_file_path, error>>
          ELSE UNCHANGED temp_dir_has_mesh /\ CallGeometry
    /\ UNCHANGED <<dis_data, inputs, first_render, mesh, dis, state_vtu_path, read_in_status,
                   stages, write_calls, written, lib_failed>>

\* init_pyvista_render_objects after FourCGeometry returned (lines 312-414):
\* pv.read and the rendering calls succeed or raise; pv.read is called with
\* state.vtu_path also when that is "" (line 326), which is no file to read
ServerRender ==
    /\ pc = "returned"
    /\ call = "FourCWebServer"
    /\ state_vtu_path' = vtu_file_path
    /\ read_in_status' = IF vtu_file_path = <<>> THEN "vtu_conversion_error"
                         ELSE read_in_status
    /\ IF vtu_file_path = <<>>
       THEN pc' = "srv_raised" /\ UNCHANGED lib_failed
       ELSE \/ pc' = "srv_done" /\ UNCHANGED lib_failed
            \/ pc' = "srv_raised" /\ lib_failed' = TRUE
    /\ UNCHANGED <<dis_data, inputs, temp_dir_has_mesh, fourc_yaml_file, first_render,
                   vtu_file_path, mesh, dis, include_upload_open, stages,
                   write_calls, written, error>>

Next ==
    \/ GeometryInit
    \/ DetectGeometryType
    \/ LegacyRead
    \/ LegacyExport
    \/ LocateMesh
    \/ ReadMesh
    \/ PostprocessMesh
    \/ ConvertMesh
    \/ Enrich
    \/ Export
    \/ ServerInit
    \/ ServerRender

Spec == Init /\ [][Next]_vars

\* ----------------------------------------- _categorize called on its own
\* the field names considered, and the lists of up to MaxNames of them
NamePool ==
    {<<"p", "X">>, <<"p", "Y">>, <<"p", "Z">>, <<"p", "_", "R">>, <<"p", "_", "Z">>,
     <<"p", "_", "X">>, <<"p", "_", "Y">>, <<"T">>, <<"X">>}
NameLists == UNION {[1..n -> NamePool] : n \in 0..MaxNames}

\* what the pipeline holds while a function is called on its own
NoPipeline ==
    /\ yaml = Yaml(AbsentSection, AbsentSection, FALSE, {})
    /\ deck_name = <<>>
    /\ deck_dir_has_mesh = FALSE
    /\ temp_dir_has_mesh = FALSE
pipeline == <<temp_dir_has_mesh, fourc_yaml_file, first_render, vtu_file_path, dis,
              dis_data, server, stages, write_calls, written, lib_failed>>

InitCategorize ==
    /\ Start
    /\ NoPipeline
    /\ call = "_categorize"
    /\ mesh_file = FixedMeshFile("exo")
    /\ use_set_names = FALSE
    /\ names \in NameLists
    /\ categorized = NotCalled
    /\ NoPostprocess
    /\ NoGui
    /\ NoMaterialLookup

\* single, double, triple = _categorize(names)
Categorize ==
    /\ pc = "idle"
    /\ call = "_categorize"
    /\ categorized' = _categorize(names)
    /\ pc' = "categorized"
    /\ UNCHANGED <<yaml, deck_name, call, deck_dir_has_mesh, mesh_file, names,
                   use_set_names, pipeline, mesh, error, postproc, gui, mats>>

NextCategorize == Categorize

SpecCategorize == InitCategorize /\ [][NextCategorize]_vars

\* ------------------------------------------- read_exodus called on its own
MaxVars == 1

\* the element-type strings and the set names the files carry
ElemTypes == {"BAR2", "bar2", "truss"}
SetNames == {"", "a", "b"}

\* the name of the element variable number v, and its value on a cell
ElemVarName(v) == <<"s", Str(v)>>
ElemVarValue(v, b, c) == <<v, b, c>>

\* the pairs (variable, block) of the variables vals_elem_var<v>eb<b> of a
\* file in which variable v is stored for the blocks tab[v], by name
ElemVarPairs(nb, tab) ==
    SelectSeq([p \in 1..(Len(tab) * nb) |-> <<((p - 1) \div nb) + 1, ((p - 1) % nb) + 1>>],
              LAMBDA vb : vb[2] \in tab[vb[1]])

\* these variables as the file holds them, the p-th being the pair order[p]
ElemVarsInOrder(blocks, tab, order) ==
    LET pairs == ElemVarPairs(Len(blocks), tab)
    IN [p \in 1..Len(pairs) |->
          [idx |-> pairs[order[p]][1], block |-> pairs[order[p]][2],
           values |-> [c \in 1..Len(blocks[pairs[order[p]][2]].data) |->
                         ElemVarValue(pairs[order[p]][1], pairs[order[p]][2], c)]]]

\* these variables in the order of their names
ElemVars(blocks, tab) ==
    ElemVarsInOrder(blocks, tab, [p \in 1..Len(ElemVarPairs(Len(blocks), tab)) |-> p])

\* the coordinate of node n (1-based) on axis a, never 0
Coord(a, n) == 10 * a + n

\* the coordinate variables of a file of dim axes: one interleaved coord
\* variable, or one variable per axis
CoordVars(layout, dim) ==
    IF layout = "coord"
    THEN ("coord" :> [a \in 1..dim |-> [n \in 1..NumNodes |-> Coord(a, n)]])
    ELSE [key \in {AxisKey(a) : a \in 1..dim} |->
            [n \in 1..NumNodes |->
                Coord(CHOOSE a \in 1..dim : AxisKey(a) = key, n)]]

\* the value of the point variable number v on node n (1-based)
NodVarValue(v, n) == <<v, n>>

\* name_nod_var and the variables vals_nod_var<v>, the p-th in the file
\* being number order[p]
NodVars(point_names, order) ==
    [name_nod_var |-> point_names,
     vals_nod_var |-> [p \in 1..Len(point_names) |->
                         [idx |-> order[p],
                          values |-> [n \in 1..NumNodes |-> NodVarValue(order[p], n)]]]]

\* an Exodus file with element types, element variables and (in opt) names
ExodusFile(s, types, eb, ns, tab, opt) ==
    LET file == ExoFile(s, eb, ns)
        blocks == [k \in 1..Len(file.blocks) |-> [file.blocks[k] EXCEPT !.type = types[k]]]
    IN [file EXCEPT !.blocks = blocks]
       @@ [name_elem_var |-> [v \in 1..Len(tab) |-> ElemVarName(v)],
           vals_elem_var |-> ElemVars(blocks, tab)]
       @@ opt

\* ns_names / eb_names: not stored, or one name for each of the n sets
NameOptions(key, n) == {<<>>} \cup {(key :> q) : q \in [1..n -> SetNames]}

BlockCount(s) == IF s = NumCells THEN 1 ELSE 2

\* block ids are distinct, as Exodus requires
BlockIds(n) == {q \in [1..n -> Entities] : \A i, j \in 1..n : q[i] = q[j] => i = j}

\* which blocks store each of up to MaxVars element variables
TruthTables(n) == UNION {[1..v -> (SUBSET (1..n)) \ {{}}] : v \in 0..MaxVars}

\* the orders in which n variables can stand in a file
Orders(n) == {q \in [1..n -> 1..n] : \A i, j \in 1..n : q[i] = q[j] => i = j}

\* the lists of point-variable names of the files
PointNameLists ==
    {<<>>, <<<<"T">>>>, <<<<"T">>, <<"U">>>>,
     <<<<"p", "X">>, <<"p", "Y">>, <<"p", "Z">>>>,
     <<<<"T">>, <<"p", "_", "R">>, <<"p", "_", "Z">>>>}

MaxFields == 2

\* every table with v variables stored for all n blocks
FullTable(v, n) == [i \in 1..v |-> 1..n]

\* files that differ in their blocks, element types, sets and set names
InitExodusSets ==
    \E s \in 1..NumCells, ns \in {TwoSets, <<>>} :
      \E types \in [1..BlockCount(s) -> ElemTypes], eb \in BlockIds(BlockCount(s)),
         tab \in TruthTables(BlockCount(s)),
         ebn \in NameOptions("eb_names", BlockCount(s)),
         nsn \in NameOptions("ns_names", Cardinality(DOMAIN ns)) :
           mesh_file = ExodusFile(s, types, eb, ns, tab,
                                  CoordVars("coordxyz", 3) @@ ebn @@ nsn)

\* files that differ in how, and for how many axes, coordinates are stored
InitExodusCoords ==
    \E s \in 1..NumCells, layout \in {"coord", "coordxyz"}, dim \in 1..3 :
        mesh_file = ExodusFile(s, [k \in 1..BlockCount(s) |-> "BAR2"],
                               [k \in 1..BlockCount(s) |-> k], TwoSets, <<>>,
                               CoordVars(layout, dim))

\* files that differ in their point and element variables and in the order
\* in which the variables stand in the file
InitExodusFields ==
    \E s \in 1..NumCells, v \in 0..MaxFields, point_names \in PointNameLists :
      \E order \in Orders(v * BlockCount(s)), nod_order \in Orders(Len(point_names)) :
        mesh_file =
            [ExodusFile(s, [k \in 1..BlockCount(s) |-> "BAR2"],
                        [k \in 1..BlockCount(s) |-> k], TwoSets, FullTable(v, BlockCount(s)),
                        CoordVars("coordxyz", 3) @@ NodVars(point_names, nod_order))
             EXCEPT !.vals_elem_var =
                 ElemVarsInOrder(ExoFile(s, <<>>, TwoSets).blocks,
                                 FullTable(v, BlockCount(s)), order)]

InitExodus ==
    /\ Start
    /\ NoPipeline
    /\ call = "read_exodus"
    /\ names = <<>>
    /\ categorized = NotCalled
    /\ use_set_names \in BOOLEAN
    /\ NoPostprocess
    /\ NoGui
    /\ NoMaterialLookup
    /\ (InitExodusSets \/ InitExodusCoords \/ InitExodusFields)

\* mesh = read_exodus(filename, use_set_names)
ReadExodus ==
    /\ pc = "idle"
    /\ call = "read_exodus"
    /\ LET r == read_exodus(mesh_file, use_set_names)
       IN \/ r.ok /\ mesh' = r.val /\ pc' = "exodus_read" /\ UNCHANGED error
          \/ ~r.ok /\ error' = r.val /\ pc' = "exodus_raised" /\ UNCHANGED mesh
    /\ UNCHANGED <<yaml, deck_name, call, deck_dir_has_mesh, mesh_file, names,
                   categorized, use_set_names, pipeline, postproc, gui, mats>>

NextExodus == ReadExodus

SpecExodus == InitExodus /\ [][NextExodus]_vars

\* ------------------------- the postprocessing functions called on their own
\* what the other calls hold while one function is called on its own
NoReaders ==
    /\ names = <<>>
    /\ categorized = NotCalled
    /\ use_set_names = FALSE
    /\ mesh_file = FixedMeshFile("exo")
    /\ mesh = NoMesh

\* cell blocks of a mesh read from an Exodus file: two line cells, one
\* hexahedron, n hexahedron27 cells with their nodes ascending or descending
LineBlock == [type |-> "line", data |-> <<<<0, 1>>, <<1, 2>>>>]
Hex8Block == [type |-> "hexahedron", data |-> <<[j \in 1..8 |-> j - 1]>>]
Hex27Block(n, ascending) ==
    [type |-> "hexahedron27",
     data |-> [e \in 1..n |->
                 [j \in 1..27 |-> IF ascending THEN 27 * (e - 1) + j - 1
                                  ELSE 27 * e - j]]]
ExoBlocks ==
    {LineBlock, Hex8Block}
    \cup {Hex27Block(n, ascending) : n \in 1..2, ascending \in BOOLEAN}

\* a mesh as read_exodus returns it: 54 points, the given cell blocks, one
\* point field and one cell field, and (with_sets) a point set and cell sets
ExoMesh(cells, with_sets) ==
    Mesh(54, cells, (<<"T">> :> [n \in 1..54 |-> NodVarValue(1, n)]), FALSE, <<>>,
         IF with_sets THEN (KeyOf(1) :> {0, 1}) ELSE <<>>,
         IF with_sets
         THEN [key \in {KeyOf(k) : k \in 1..Len(cells)} |->
                 LET k == CHOOSE k \in 1..Len(cells) : KeyOf(k) = key
                 IN CumCount(cells, k - 1)..(CumCount(cells, k) - 1)]
         ELSE <<>>)
    @@ [points |-> [n \in 1..54 |-> <<Coord(1, n), Coord(2, n), Coord(3, n)>>],
        cell_data |-> (ElemVarName(1) :>
                         [k \in 1..Len(cells) |->
                             [c \in 1..Len(cells[k].data) |-> ElemVarValue(1, k, c)]])]

InitSwitchNodeOrder ==
    /\ call = "switch_node_order"
    /\ \E cells \in UNION {[1..n -> ExoBlocks] : n \in 1..2}, with_sets \in BOOLEAN :
           heap = <<ExoMesh(cells, with_sets)>>

\* the point_data names and arrays of the vtu meshes
PointDataNames == {<<"point_set_", "1">>, <<"point_set_", "2">>, <<"T">>}
PointArrays == {Indicator(m) : m \in MemberSets} \cup {[n \in Nodes |-> n]}

\* a mesh as read_mesh returns it for a vtu file: blocks split at s, a
\* block_id field on the cells (when stored), the point_data arrays
VtuMesh(s, has_block_id, field, point_data) ==
    Mesh(NumNodes, ChainBlocks(s, "line", 0), point_data, has_block_id,
         IF has_block_id THEN PerBlock(s, field) ELSE <<>>, <<>>, <<>>)

InitPostprocessVtu ==
    /\ call = "postprocess_vtu_mesh"
    /\ \E s \in 1..NumCells, has_block_id \in BOOLEAN, field \in [1..NumCells -> Entities],
          stored \in SUBSET PointDataNames :
         \E point_data \in [stored -> PointArrays] :
           /\ (~has_block_id => field = [i \in 1..NumCells |-> 1])
           /\ heap = <<VtuMesh(s, has_block_id, field, point_data)>>

InitPostprocess ==
    /\ Start
    /\ NoPipeline
    /\ NoReaders
    /\ returned = 0
    /\ NoGui
    /\ NoMaterialLookup
    /\ (InitSwitchNodeOrder \/ InitPostprocessVtu)

\* copy_mesh_exo = mesh_exo.copy(); the loop changes the copy; it is returned
SwitchNodeOrder ==
    /\ pc = "idle"
    /\ call = "switch_node_order"
    /\ LET c == MeshCopy(heap, 1)
       IN /\ heap' = [c.heap EXCEPT ![c.ref] = switch_node_order(c.heap[c.ref])]
          /\ returned' = c.ref
    /\ pc' = "switched"
    /\ UNCHANGED <<yaml, deck_name, call, deck_dir_has_mesh, mesh_file, names,
                   categorized, use_set_names, pipeline, mesh, error, gui, mats>>

\* copy_mesh = mesh.copy(); the copy is changed and returned
PostprocessVtu ==
    /\ pc = "idle"
    /\ call = "postprocess_vtu_mesh"
    /\ LET c == MeshCopy(heap, 1)
       IN /\ heap' = [c.heap EXCEPT ![c.ref] = postprocess_vtu_mesh(c.heap[c.ref])]
          /\ returned' = c.ref
    /\ pc' = "postprocessed"
    /\ UNCHANGED <<yaml, deck_name, call, deck_dir_has_mesh, mesh_file, names,
                   categorized, use_set_names, pipeline, mesh, error, gui, mats>>

NextPostprocess == SwitchNodeOrder \/ PostprocessVtu

SpecPostprocess == InitPostprocess /\ [][NextPostprocess]_vars

\* ------------------------------------- the section events of the web server
\* A section name is the sequence of its parts between the slashes; the
\* empty string is <<>>.  The data of a section is not modelled.
\* section_name.split("/")[0]
MainPart(section_name) == <<Head(section_name)>>

\* re.match("^SOLVER [0-9]+", section_name)
IsSolverSection(section_name) == Head(section_name) \in {"SOLVER 1", "SOLVER 2"}

\* sect_to_exclude (the names of the model hold none of substr_to_exclude)
sect_to_exclude ==
    {<<"MATERIALS">>, <<"TITLE">>, <<"CLONING MATERIAL MAP">>, <<"RESULT DESCRIPTION">>}

\* the main section a section of the input deck is listed under
MainSectionOf(section_name) ==
    IF IsSolverSection(section_name) THEN <<"SOLVERS">> ELSE MainPart(section_name)

\* the elements of a sequence without repetitions, in order of first use
FirstSeen(q) == SelectSeq([i \in 1..Len(q) |-> IF \E j \in 1..(i - 1) : q[j] = q[i]
                                               THEN <<>> ELSE <<q[i]>>],
                          LAMBDA x : x # <<>>)

\* init_general_sections_state_and_server_vars: state.general_sections as
\* the list of its main sections, each with the names of its sections
InitGeneralSections(content) ==
    LET kept == SelectSeq(content, LAMBDA n : n \notin sect_to_exclude)
        mains == FirstSeen([i \in 1..Len(kept) |-> MainSectionOf(kept[i])])
    IN [m \in 1..Len(mains) |->
          [main |-> mains[m][1],
           sections |-> SelectSeq(kept, LAMBDA n : MainSectionOf(n) = mains[m][1])]]

\* state.section_names after the constructor: the general main sections,
\* then the four fixed entries
InitSectionNames(general) ==
    [m \in 1..Len(general) |->
        [main |-> general[m].main, subsections |-> general[m].sections,
         content_mode |-> "general_section"]]
    \o <<[main |-> <<"MATERIALS">>,
          subsections |-> <<<<"OVERVIEW">>, <<"CLONING MATERIAL MAP">>>>,
          content_mode |-> "materials_section"],
         [main |-> <<"DESIGN CONDITIONS">>, subsections |-> <<<<"DESIGN CONDITIONS">>>>,
          content_mode |-> "design_conditions_section"],
         [main |-> <<"RESULT DESCRIPTION">>, subsections |-> <<<<"RESULT DESCRIPTION">>>>,
          content_mode |-> "result_description_section"],
         [main |-> <<"FUNCTIONS">>, subsections |-> <<<<"FUNCTIONS">>>>,
          content_mode |-> "funct_section"]>>

\* dict access by main section name: the keys, and the position of a key
MainKeys(d) == {d[m].main : m \in 1..Len(d)}
At(d, main) == CHOOSE m \in 1..Len(d) : d[m].main = main
\* d.pop(main, None)
PopMain(d, main) == SelectSeq(d, LAMBDA e : e.main # main)
\* [s for s in subs if s != section]
Without(subs, section) == SelectSeq(subs, LAMBDA x : x # section)

\* json_schema["required"]
RequiredSections == {<<"PROBLEM TYPE">>}

\* sync_general_sections_from_state: fourc_yaml_content[section] = data for
\* every section of state.general_sections
SyncGeneralSections(content, general) ==
    LET listed == Concatenate([m \in 1..Len(general) |-> general[m].sections])
    IN content \o SelectSeq(listed, LAMBDA n : n \notin SeqRange(content))

\* sync_server_vars_from_state: the title, then the general sections (the
\* other sections it syncs are not general sections)
SyncServerVars(content, general) ==
    SyncGeneralSections(IF <<"TITLE">> \in SeqRange(content) THEN content
                        ELSE Append(content, <<"TITLE">>), general)

\* click_delete_section_button: the new values of general_sections,
\* section_names and the selection
DeleteMainBranch(cur_main, cur_section, new_subs) == cur_section = cur_main

click_delete_section_button(general, snames, cur_main, cur_section) ==
    LET unchanged == [general_sections |-> general, section_names |-> snames,
                      selected_main_section_name |-> cur_main,
                      selected_section_name |-> cur_section, removed |-> FALSE]
    IN IF cur_section \in RequiredSections THEN unchanged
       ELSE IF cur_main = <<>> \/ cur_section = <<>> THEN unchanged
       ELSE IF cur_main \notin MainKeys(general)
               \/ cur_section \notin SeqRange(general[At(general, cur_main)].sections)
       THEN unchanged   \* KeyError: nothing has been assigned yet
       ELSE IF cur_main \notin MainKeys(snames)
       THEN [unchanged EXCEPT   \* KeyError after general_sections was assigned
                !.general_sections = [general EXCEPT ![At(general, cur_main)].sections =
                                          Without(@, cur_section)],
                !.removed = TRUE]
       ELSE
       LET general_1 == [general EXCEPT ![At(general, cur_main)].sections =
                             Without(@, cur_section)]
           new_subs == Without(snames[At(snames, cur_main)].subsections, cur_section)
           names_1 == [snames EXCEPT ![At(snames, cur_main)].subsections = new_subs]
       IN IF DeleteMainBranch(cur_main, cur_section, new_subs)
          THEN LET names_2 == PopMain(names_1, cur_main)
                   new_main == IF names_2 = <<>> THEN <<>> ELSE names_2[1].main
               IN [general_sections |-> PopMain(general_1, cur_main),
                   section_names |-> names_2,
                   selected_main_section_name |-> new_main,
                   selected_section_name |->
                       IF new_main # <<>> /\ names_2[1].subsections # <<>>
                       THEN names_2[1].subsections[1] ELSE <<>>,
                   removed |-> TRUE]
          ELSE [general_sections |-> general_1,
                section_names |-> names_1,
                selected_main_section_name |-> cur_main,
                selected_section_name |-> IF new_subs # <<>> THEN new_subs[1] ELSE <<>>,
                removed |-> TRUE]

\* the sections of the input decks, in the order of the file
SectionPool ==
    <<<<"PROBLEM TYPE">>, <<"IO">>, <<"IO", "RUNTIME VTK OUTPUT">>,
      <<"SCATRA", "STABILIZATION">>, <<"SOLVER 1">>>>
Decks == {SelectSeq(SectionPool, LAMBDA n : n \in kept) \o <<<<"MATERIALS">>>> :
            kept \in SUBSET SeqRange(SectionPool)}

\* FourCWebServer.__init__ on a deck: the section state after it
InitSections ==
    /\ Start
    /\ NoPipeline
    /\ NoReaders
    /\ NoPostprocess
    /\ NoMaterialLookup
    /\ call = "section_events"
    /\ fourc_yaml_content \in Decks
    /\ general_sections = InitGeneralSections(fourc_yaml_content)
    /\ section_names = InitSectionNames(general_sections)
    /\ selected_main_section_name = section_names[1].main
    /\ selected_section_name = section_names[1].subsections[1]
    /\ deleted = {}
    /\ saved_deleted = {}

SectionEvent(name) ==
    /\ call = "section_events"
    /\ pc' = name
    /\ UNCHANGED <<yaml, deck_name, call, deck_dir_has_mesh, mesh_file, names,
                   categorized, use_set_names, pipeline, mesh, error, postproc, mats>>

\* the user picks a main section; change_selected_main_section_name
SelectMainSection ==
    /\ SectionEvent("selected_main")
    /\ \E m \in 1..Len(section_names) :
         /\ selected_main_section_name' = section_names[m].main
         /\ selected_section_name' =
                IF section_names[m].subsections = <<>>
                THEN selected_section_name   \* [0] of an empty list: IndexError
                ELSE section_names[m].subsections[1]
    /\ UNCHANGED <<general_sections, section_names, fourc_yaml_content, deleted,
                   saved_deleted>>

\* the user picks a section of the selected main section
SelectSection ==
    /\ SectionEvent("selected_section")
    /\ selected_main_section_name \in MainKeys(section_names)
    /\ \E x \in SeqRange(section_names[At(section_names, selected_main_section_name)].subsections) :
         selected_section_name' = x
    /\ UNCHANGED <<general_sections, section_names, selected_main_section_name,
                   fourc_yaml_content, deleted, saved_deleted>>

\* the DELETE SECTION button (shown for the main sections of
\* general_sections) is clicked
ClickDeleteSection ==
    /\ SectionEvent("clicked_delete")
    /\ selected_main_section_name \in MainKeys(general_sections)
    /\ LET r == click_delete_section_button(general_sections, section_names,
                                            selected_main_section_name,
                                            selected_section_name)
       IN /\ general_sections' = r.general_sections
          /\ section_names' = r.section_names
          /\ selected_main_section_name' = r.selected_main_section_name
          /\ selected_section_name' = r.selected_section_name
          /\ deleted' = IF r.removed THEN deleted \cup {selected_section_name}
                        ELSE deleted
          \* the change of state.general_sections runs on_sections_change
          /\ fourc_yaml_content' = IF r.removed
                                   THEN SyncServerVars(fourc_yaml_content,
                                                       r.general_sections)
                                   ELSE fourc_yaml_content
    /\ UNCHANGED saved_deleted

\* on_sections_change: sync_server_vars_from_state
OnSectionsChange ==
    /\ SectionEvent("sections_changed")
    /\ fourc_yaml_content' = SyncServerVars(fourc_yaml_content, general_sections)
    /\ UNCHANGED <<general_sections, section_names, selected_main_section_name,
                   selected_section_name, deleted, saved_deleted>>

\* on_leave_edit_field: init_general_sections_state_and_server_vars
OnLeaveEditField ==
    /\ SectionEvent("left_edit_field")
    /\ general_sections' = InitGeneralSections(fourc_yaml_content)
    \* the change of state.general_sections runs on_sections_change
    /\ fourc_yaml_content' = SyncServerVars(fourc_yaml_content, general_sections')
    /\ UNCHANGED <<section_names, selected_main_section_name, selected_section_name,
                   deleted, saved_deleted>>

\* click_save_button: sync_server_vars_from_state, then write_fourc_yaml_file
ClickSave ==
    /\ SectionEvent("saved")
    /\ fourc_yaml_content' = SyncServerVars(fourc_yaml_content, general_sections)
    /\ saved_deleted' = saved_deleted \cup (deleted \cap SeqRange(fourc_yaml_content'))
    /\ UNCHANGED <<general_sections, section_names, selected_main_section_name,
                   selected_section_name, deleted>>

NextSections ==
    \/ SelectMainSection
    \/ SelectSection
    \/ ClickDeleteSection
    \/ OnSectionsChange
    \/ OnLeaveEditField
    \/ ClickSave

SpecSections == InitSections /\ [][NextSections]_vars

\* --------------------------- determine_master_mat_ind_for_material
MaxEntries == 2
MaxMatId == 3
MatIds == 1..MaxMatId

\* np.where(tar_mat_list == id)[0]: the 0-based positions of the entries
\* whose TAR_MAT is id, ascending
WhereTarMat(map, id) ==
    SelectSeq([i \in 1..Len(map) |-> i - 1], LAMBDA i : map[i + 1].TAR_MAT = id)

\* the cloning material maps, and the master material of the material the
\* function is called for
InitMaterial ==
    /\ Start
    /\ NoPipeline
    /\ NoReaders
    /\ NoPostprocess
    /\ NoGui
    /\ call = "determine_master_mat_ind_for_material"
    /\ \E n \in 0..MaxEntries :
         cloning_material_map_section
             \in [1..n -> [TAR_MAT : MatIds, SRC_MAT : MatIds]]
    /\ master_mat_id \in MatIds
    /\ matches = <<>>
    /\ passes = 0

MaterialStep ==
    /\ call = "determine_master_mat_ind_for_material"
    /\ UNCHANGED <<yaml, deck_name, call, deck_dir_has_mesh, mesh_file, names,
                   categorized, use_set_names, pipeline, mesh, error, postproc, gui,
                   cloning_material_map_section>>

\* the function up to the loop: the first matches, if there is a map
MasterMatFirstMatches ==
    /\ pc = "idle"
    /\ MaterialStep
    /\ IF cloning_material_map_section # <<>>
       THEN /\ matches' = WhereTarMat(cloning_material_map_section, master_mat_id)
            /\ pc' = "mat_loop"
       ELSE /\ pc' = "mat_returned"
            /\ UNCHANGED matches
    /\ UNCHANGED <<master_mat_id, passes>>

\* one pass of the while loop
MasterMatLoop ==
    /\ pc = "mat_loop"
    /\ MaterialStep
    /\ Len(matches) > 0
    /\ master_mat_id' = cloning_material_map_section[matches[1] + 1].SRC_MAT
    /\ matches' = WhereTarMat(cloning_material_map_section, master_mat_id')
    /\ passes' = Min2(passes + 1, MaxEntries + 1)
    /\ pc' = "mat_loop"

\* the loop is left: return master_mat_id
MasterMatReturn ==
    /\ pc = "mat_loop"
    /\ MaterialStep
    /\ Len(matches) = 0
    /\ pc' = "mat_returned"
    /\ UNCHANGED <<master_mat_id, matches, passes>>

NextMaterial ==
    \/ MasterMatFirstMatches
    \/ MasterMatLoop
    \/ MasterMatReturn

\* the function runs on as long as it has a statement to execute
SpecMaterial == InitMaterial /\ [][NextMaterial]_vars /\ WF_vars(NextMaterial)

\* a FourCGeometry has been constructed, or is under construction
GeometryCalled == pc # "idle" /\ fourc_yaml_file # <<>>
\* the FourCGeometry constructor has returned to its caller
GeometryReturned == GeometryCalled /\ pc \in {"returned", "srv_done", "srv_raised"}
\* an exception has left the FourCGeometry constructor
GeometryRaised == pc = "raised"
\* nothing more happens
Terminal ==
    \/ pc \in {"raised", "srv_done", "srv_raised", "srv_waiting"}
    \/ pc = "returned" /\ call # "FourCWebServer"

\* ----------------------------------------------------- checked properties
\* the run took the external-geometry branch
ExternalRun == Len(stages) >= 2 /\ stages[2] = "locate"

IsPrefix(s, t) == Len(s) <= Len(t) /\ SubSeq(t, 1, Len(s)) = s

\* C1: once the geometry type has been determined as legacy or
\* external_geometry, an exception raised by any later stage is caught: no
\* exception leaves the constructor, it returns normally, and vtu_file_path
\* is the empty string.
C1_LaterStageExceptionCaught ==
    Len(stages) >= 2 =>
        /\ ~GeometryRaised
        /\ error # "" => GeometryReturned /\ vtu_file_path = <<>>

\* a later stage has raised and the constructor has returned with ""
C1_Witness ==
    /\ Len(stages) >= 2
    /\ error # ""
    /\ pc = "returned"
    /\ vtu_file_path = <<>>

\* C2: constructing FourCGeometry never lets an exception reach its caller;
\* a malformed-deck error of the geometry-type detection (GEOMETRY section
\* without FILE, several distinct files, unsupported suffix, neither GEOMETRY
\* nor ELEMENTS) ends in a returned constructor with an empty vtu_file_path.
C2_NoExceptionReachesCaller ==
    /\ ~GeometryRaised
    /\ (stages # <<>> /\ ~geom_type(yaml).ok) =>
           GeometryReturned /\ vtu_file_path = <<>>

\* C3: after construction has returned, vtu_file_path is "" or exactly
\* <temp_dir>/<stem>.vtu; in the latter case the export wrote to that path
\* in this run, and the stem of the path is the stem of the deck file.
C3_PathEmptyOrWrittenVtu ==
    GeometryReturned =>
        \/ vtu_file_path = <<>>
        \/ /\ vtu_file_path = <<TEMP_DIR, "/">> \o PathStem(deck_name) \o <<".", "vtu">>
           /\ vtu_file_path \in written
           /\ vtu_file_path \in SeqRange(write_calls)
           /\ PathStem(PathName(vtu_file_path)) = PathStem(deck_name)

\* a deck whose name has two suffixes was converted
C3_Witness ==
    /\ GeometryReturned
    /\ vtu_file_path # <<>>
    /\ deck_name = <<"case", ".", "4C", ".", "yaml">>
    /\ vtu_file_path \in written

\* the order of the stages of an external-geometry run
ExternalStageOrder(post) ==
    <<"detect", "locate", "read_mesh", post, "mesh_to_dis", "enrich", "export">>

\* C4: in an external-geometry run the stages run in the order read mesh,
\* postprocess, mesh2Discretization, enrichment, export; the export write is
\* invoked at most once, and only after enrichment completed without error;
\* the node-order correction is applied only for .exo and .e, never for .vtu.
C4_ExternalStageOrder ==
    ExternalRun =>
        /\ \E post \in {"switch_node_order", "postprocess_vtu"} :
               IsPrefix(stages, ExternalStageOrder(post))
        /\ Len(write_calls) <= 1
        /\ write_calls # <<>> =>
               /\ IsPrefix(<<"mesh_to_dis", "enrich", "export">>,
                           SubSeq(stages, 5, Len(stages)))
               /\ LET d == enhance_dis_with_fourc_yaml_info(
                               yaml, mesh, mesh2Discretization(mesh))
                  IN d.ok /\ dis = d.val
        /\ "switch_node_order" \in SeqRange(stages) =>
               PathSuffix(ReferencedFile(yaml)) \in {<<".", "exo">>, <<".", "e">>}
        /\ PathSuffix(ReferencedFile(yaml)) = <<".", "vtu">> =>
               "switch_node_order" \notin SeqRange(stages)

\* a .vtu run went through all stages and invoked the export write
C4_Witness ==
    /\ ExternalRun
    /\ PathSuffix(ReferencedFile(yaml)) = <<".", "vtu">>
    /\ stages = ExternalStageOrder("postprocess_vtu")
    /\ Len(write_calls) = 1

\* the sections of a deck whose names end with GEOMETRY, and with ELEMENTS
GeometrySectionsOf(deck) ==
    {k \in SectionNames : deck[k].present /\ k[Len(k)] = "GEOMETRY"}
ElementsSectionsOf(deck) ==
    {k \in SectionNames : deck[k].present /\ k[Len(k)] = "ELEMENTS"}
\* the FILE values the GEOMETRY sections of a deck declare
DeclaredFiles(deck) ==
    {deck[k].file : k \in {g \in GeometrySectionsOf(deck) : deck[g].hasFile}}
\* some GEOMETRY section lacks FILE, or two of them declare different files
MalformedGeometry(deck) ==
    \/ \E k \in GeometrySectionsOf(deck) : ~deck[k].hasFile
    \/ Cardinality(DeclaredFiles(deck)) > 1

\* what the dispatch on geom_type has just decided
DetectedType ==
    IF pc = "legacy_read" THEN "legacy"
    ELSE IF pc = "ext_locate" THEN "external_geometry"
    ELSE IF pc = "raised" THEN "fatal"
    ELSE "none"

\* C5 as stated: external_geometry when some GEOMETRY section declares a FILE
\* with a supported suffix (any other suffix is fatal); otherwise legacy when
\* some section name ends with ELEMENTS; otherwise fatal.  Hence a deck with
\* an ELEMENTS section and no GEOMETRY section declaring a FILE is legacy.
C5_AsStated ==
    stages = <<"detect">> =>
        DetectedType =
            IF \E f \in DeclaredFiles(yaml) : PathSuffix(f) \in SUPPORTED_GEOMETRY_FORMATS
            THEN "external_geometry"
            ELSE IF DeclaredFiles(yaml) # {} THEN "fatal"
            ELSE IF ElementsSectionsOf(yaml) # {} THEN "legacy"
            ELSE "fatal"

\* C5: the geometry type is fatal when some GEOMETRY section lacks FILE or
\* the GEOMETRY sections declare different files; otherwise, when there is a
\* GEOMETRY section, external_geometry if the suffix of the declared file is
\* .exo, .e or .vtu and fatal for any other suffix; otherwise legacy when
\* some section name ends with ELEMENTS; otherwise fatal.
C5_GeometryType ==
    stages = <<"detect">> =>
        DetectedType =
            IF MalformedGeometry(yaml) THEN "fatal"
            ELSE IF GeometrySectionsOf(yaml) # {}
            THEN (IF \A f \in DeclaredFiles(yaml) :
                         PathSuffix(f) \in {<<".", "exo">>, <<".", "e">>, <<".", "vtu">>}
                  THEN "external_geometry" ELSE "fatal")
            ELSE IF ElementsSectionsOf(yaml) # {} THEN "legacy"
            ELSE "fatal"

\* a deck with an ELEMENTS section and a GEOMETRY section without FILE has
\* been through the detection
C5_Witness ==
    /\ stages = <<"detect">>
    /\ ElementsSectionsOf(yaml) # {}
    /\ DeclaredFiles(yaml) = {}
    /\ GeometrySectionsOf(yaml) # {}
    /\ pc = "raised"

\* C6: get_geometry_file returns the empty list when no section name ends
\* with GEOMETRY, a one-element list when all such sections declare the same
\* FILE, raises when two of them declare different files or one lacks FILE,
\* and never returns more than one file.
C6_GeometryFile ==
    pc # "idle" =>
        LET r == get_geometry_file(yaml)
        IN /\ GeometrySectionsOf(yaml) = {} => r = Ok(<<>>)
           /\ (GeometrySectionsOf(yaml) # {} /\ ~MalformedGeometry(yaml)) =>
                  /\ r.ok /\ Len(r.val) = 1
                  /\ DeclaredFiles(yaml) = {r.val[1]}
           /\ MalformedGeometry(yaml) => ~r.ok
           /\ r.ok => Len(r.val) <= 1
           /\ pc = "ext_read" => r.ok /\ r.val # <<>>

\* two GEOMETRY sections declaring the same FILE, and the mesh file located
C6_Witness ==
    /\ pc = "ext_read"
    /\ Cardinality(GeometrySectionsOf(yaml)) = 2
    /\ \A k \in GeometrySectionsOf(yaml) : yaml[k].hasFile
    /\ Cardinality(DeclaredFiles(yaml)) = 1

\* the three kinds of valid deck: legacy inline (an ELEMENTS section, no
\* GEOMETRY section), and one GEOMETRY section with ELEMENT_BLOCKS that
\* references a .exo or a .vtu file
ValidLegacyDeck(deck) ==
    GeometrySectionsOf(deck) = {} /\ ElementsSectionsOf(deck) # {}
ValidExternalDeck(deck) ==
    /\ Cardinality(GeometrySectionsOf(deck)) = 1
    /\ \A k \in GeometrySectionsOf(deck) :
           /\ deck[k].hasFile /\ deck[k].hasBlocks
           /\ PathSuffix(deck[k].file) \in {<<".", "exo">>, <<".", "vtu">>}

\* C7: constructing FourCWebServer on a valid deck of any of the three kinds
\* (legacy inline, .exo, .vtu with the geometry file next to the deck)
\* completes without error, and state.vtu_path is then non-empty with the
\* stem of the deck file.
C7_ServerConvertsValidDecks ==
    ( /\ call = "FourCWebServer"
      /\ deck_name \in {<<"case", ".", "4C", ".", "yaml">>, <<"case", ".", "yaml">>}
      /\ \/ ValidLegacyDeck(yaml)
         \/ ValidExternalDeck(yaml) /\ deck_dir_has_mesh
      /\ ~lib_failed
      /\ Terminal )
    => /\ pc = "srv_done"
       /\ state_vtu_path # <<>>
       /\ PathStem(PathName(state_vtu_path)) = PathStem(deck_name)

\* the design-condition sections of a deck
DesignSectionsOf(deck) ==
    {k \in SectionNames : deck[k].present /\ Len(k) > 1 /\ k[1] = "DESIGN"}
\* an item enrichment cannot handle, a section name without geometry word
BadItem(item) ==
    ~item.hasType \/ item.type \notin {"node_set_id", "element_block_id"}
BadDesign(deck) ==
    \E k \in DesignSectionsOf(deck) :
        \/ SeqRange(k) \cap {"POINT", "LINE", "SURF", "VOL"} = {}
        \/ \E j \in 1..Len(deck[k].items) : BadItem(deck[k].items[j])

\* C8: when a design-condition item lacks ENTITY_TYPE, has ENTITY_TYPE
\* legacy_id or an ENTITY_TYPE other than node_set_id and element_block_id,
\* or a design-condition section name contains none of POINT, LINE, SURF,
\* VOL, then enrichment (of an external-geometry run that gets that far)
\* raises, the export write is never invoked in the run, and the run ends
\* with an empty vtu_file_path.
C8_BadDesignFailsEnrichment ==
    (ExternalRun /\ BadDesign(yaml)) =>
        /\ write_calls = <<>>
        /\ "export" \notin SeqRange(stages)
        /\ "enrich" \in SeqRange(stages) =>
               /\ ~enhance_dis_with_fourc_yaml_info(yaml, mesh, dis).ok
               /\ error # ""
               /\ GeometryReturned
        /\ GeometryReturned => vtu_file_path = <<>>

\* enrichment has just raised on an item of ENTITY_TYPE legacy_id
C8_Witness ==
    /\ ExternalRun
    /\ BadDesign(yaml)
    /\ stages[Len(stages)] = "enrich"
    /\ error = "legacy_id_unsupported"
    /\ vtu_file_path = <<>>

\* enrichment of an external-geometry run has completed without error
EnrichmentDone ==
    /\ ExternalRun
    /\ Len(stages) >= 6
    /\ pc = "ext_export" \/ Len(stages) = 7

Categories == {"point", "line", "surf", "vol"}
\* the category a design-condition section name names, by its words
CategoryOf(k) ==
    IF "POINT" \in SeqRange(k) THEN "point"
    ELSE IF "LINE" \in SeqRange(k) THEN "line"
    ELSE IF "SURF" \in SeqRange(k) THEN "surf"
    ELSE IF "VOL" \in SeqRange(k) THEN "vol"
    ELSE ""
\* the tags a node carries in the list of a category
TagsOf(c, n) ==
    SeqRange(IF c = "point" THEN dis.nodesets.pointnodesets[n]
             ELSE IF c = "line" THEN dis.nodesets.linenodesets[n]
             ELSE IF c = "surf" THEN dis.nodesets.surfacenodesets[n]
             ELSE dis.nodesets.volumenodesets[n])
\* the items of the design-condition sections of a category
ItemsOf(c) ==
    UNION {SeqRange(yaml[k].items) :
              k \in {d \in DesignSectionsOf(yaml) : CategoryOf(d) = c}}
\* the node set an item resolves to
ResolvedNodes(item) ==
    IF item.type = "node_set_id" THEN mesh.point_sets[KeyOf(item.E)]
    ELSE get_all_nodes_in_element_block(mesh, item.E).val
\* the nodes of the mesh
MeshNodes == 0..(mesh.num_points - 1)

\* C9: after enrichment, a node carries the tag str(E) in the list of
\* category c exactly when some item with that E in a category-c design
\* section resolves to a node set containing the node; no tag appears in the
\* list of another category; for ENTITY_TYPE node_set_id the resolved set is
\* exactly the stored point set keyed by E.
C9_TagsMatchItems ==
    EnrichmentDone =>
        \A c \in Categories :
            /\ \A n \in MeshNodes : \A E \in Entities :
                   KeyOf(E) \in TagsOf(c, n) <=>
                       \E item \in ItemsOf(c) :
                           item.E = E /\ n \in ResolvedNodes(item)
            /\ \A n \in MeshNodes : TagsOf(c, n) \subseteq {KeyOf(E) : E \in Entities}
            /\ \A item \in ItemsOf(c) :
                   (/\ item.type = "node_set_id"
                    /\ \A other \in ItemsOf(c) : other.E = item.E => other = item)
                   => {n \in MeshNodes : KeyOf(item.E) \in TagsOf(c, n)}
                          = mesh.point_sets[KeyOf(item.E)]

\* a POINT item and a LINE item have tagged different nodes
C9_Witness ==
    /\ EnrichmentDone
    /\ \E n \in MeshNodes : TagsOf("point", n) # {} /\ TagsOf("line", n) = {}
    /\ \E n \in MeshNodes : TagsOf("line", n) # {} /\ TagsOf("point", n) = {}

\* the union of the nodes of the elements of the cell set keyed by E, the
\* elements counted through the cell blocks in order
CellSetNodes(E) ==
    LET cl == CellList(mesh.cells, Len(mesh.cells))
    IN UNION {SeqRange(mesh.cells[cl[e + 1].block].data[cl[e + 1].pos]) :
                 e \in mesh.cell_sets[KeyOf(E)]}

\* C10: for an item of ENTITY_TYPE element_block_id with entity id E, the
\* tagged nodes are exactly the union of the nodes of all elements in the
\* cell set keyed by E, in both formats, for any number of cell blocks, also
\* when the cell set is a proper subset of a cell block.
C10_ElementBlockNodes ==
    EnrichmentDone =>
        \A c \in Categories : \A item \in ItemsOf(c) :
            (/\ item.type = "element_block_id"
             /\ \A other \in ItemsOf(c) : other.E = item.E => other = item)
            => {n \in MeshNodes : KeyOf(item.E) \in TagsOf(c, n)}
                   = CellSetNodes(item.E)

\* the ELEMENT_BLOCKS declarations of the GEOMETRY sections of the deck
Declarations ==
    UNION {SeqRange(yaml[k].blocks) : k \in GeometrySectionsOf(yaml)}
\* the 1-based number of the cell block that holds element e (1-based)
BlockOf(e) == CellList(mesh.cells, Len(mesh.cells))[e].block
\* the export has prepared the data of the enriched discretization
ExportPrepared == EnrichmentDone /\ Len(stages) = 7 /\ write_calls # <<>>

FieldPrefix(c) ==
    IF c = "point" THEN "dpoint"
    ELSE IF c = "line" THEN "dline"
    ELSE IF c = "surf" THEN "dsurf"
    ELSE "dvol"
\* the field d<category><entity-id>, in pieces
ConditionField(c, E) == <<FieldPrefix(c), Str(E)>>
\* the fields of a node other than its id and its coordinates
ConditionFieldsOf(n) ==
    (DOMAIN dis_data.node_data[n]) \ {<<"node-id">>, <<"node-coords">>}

\* C12: prepare_dis_for_vtu_output writes for each node the scalar
\* d<category><entity-id> = 1.0 for exactly the (category, entity) pairs in
\* the node's membership lists, and writes nothing, never a 0, for any other
\* pair; a point set used in a DESIGN POINT condition gives dpoint<id> = 1.0
\* on the nodes of the set and on no other node.
C12_ConditionFields ==
    ExportPrepared =>
        /\ \A n \in MeshNodes :
               /\ \A c \in Categories : \A E \in Entities :
                      ConditionField(c, E) \in DOMAIN dis_data.node_data[n]
                          <=> KeyOf(E) \in TagsOf(c, n)
               /\ \A k \in ConditionFieldsOf(n) :
                      /\ dis_data.node_data[n][k] = 1
                      /\ \E c \in Categories : \E E \in Entities :
                             k = ConditionField(c, E)
        /\ \A item \in ItemsOf("point") :
               (/\ item.type = "node_set_id"
                /\ \A other \in ItemsOf("point") : other.E = item.E => other = item)
               => {n \in MeshNodes :
                       ConditionField("point", item.E) \in DOMAIN dis_data.node_data[n]}
                      = mesh.point_sets[KeyOf(item.E)]

\* a point set used in a DESIGN POINT condition has been exported: its
\* nodes carry the field, another node does not
C12_Witness ==
    /\ ExportPrepared
    /\ \E item \in ItemsOf("point") :
           /\ item.type = "node_set_id"
           /\ \E n \in MeshNodes :
                  /\ ConditionField("point", item.E) \in DOMAIN dis_data.node_data[n]
                  /\ dis_data.node_data[n][ConditionField("point", item.E)] = 1
           /\ \E n \in MeshNodes :
                  ConditionField("point", item.E) \notin DOMAIN dis_data.node_data[n]

\* _categorize has returned its three lists
Categorized == pc = "categorized" /\ categorized.ok
\* the prefixes p with pX, pY and pZ in the list, and those with p_R and p_Z
TriplePrefixes ==
    {DropLast(names[i], 1) : i \in {j \in 1..Len(names) :
         /\ names[j] # <<>> /\ names[j][Len(names[j])] = "X"
         /\ DropLast(names[j], 1) \o <<"Y">> \in SeqRange(names)
         /\ DropLast(names[j], 1) \o <<"Z">> \in SeqRange(names)}}
DoublePrefixes ==
    {DropLast(names[i], 2) : i \in {j \in 1..Len(names) :
         /\ Len(names[j]) >= 2
         /\ SubSeq(names[j], Len(names[j]) - 1, Len(names[j])) = <<"_", "R">>
         /\ DropLast(names[j], 2) \o <<"_", "Z">> \in SeqRange(names)}}
\* the 0-based positions of a name in the list
PositionsOf(x) == {i - 1 : i \in {j \in 1..Len(names) : names[j] = x}}
\* the names returned as singles
SingleNames == {categorized.val.single[i][1] : i \in 1..Len(categorized.val.single)}

\* C13: when the list holds, for a prefix p, all of pX, pY and pZ at any
\* positions, _categorize returns exactly one triple for p, holding the
\* three original positions, and none of pX, pY, pZ is among the singles;
\* when it holds p_R and p_Z it returns exactly one double for p and neither
\* name is among the singles.
C13_CompleteSetsAreGrouped ==
    Categorized =>
        /\ \A p \in TriplePrefixes :
               LET T == {i \in 1..Len(categorized.val.triple) :
                             categorized.val.triple[i][1] = p}
               IN /\ Cardinality(T) = 1
                  /\ \A i \in T :
                         /\ categorized.val.triple[i][2] \in PositionsOf(p \o <<"X">>)
                         /\ categorized.val.triple[i][3] \in PositionsOf(p \o <<"Y">>)
                         /\ categorized.val.triple[i][4] \in PositionsOf(p \o <<"Z">>)
                  /\ SingleNames \cap {p \o <<"X">>, p \o <<"Y">>, p \o <<"Z">>} = {}
        /\ \A p \in DoublePrefixes :
               LET D == {i \in 1..Len(categorized.val.double) :
                             categorized.val.double[i][1] = p}
               IN /\ Cardinality(D) = 1
                  /\ \A i \in D :
                         /\ categorized.val.double[i][2] \in PositionsOf(p \o <<"_", "R">>)
                         /\ categorized.val.double[i][3] \in PositionsOf(p \o <<"_", "Z">>)
                  /\ SingleNames \cap {p \o <<"_", "R">>, p \o <<"_", "Z">>} = {}

\* how often the groups returned claim the 0-based position i
TimesClaimed(i) ==
    LET g == categorized.val
    IN Cardinality({j \in 1..Len(g.single) : g.single[j][2] = i})
       + Cardinality({q \in (1..Len(g.double)) \X {2, 3} : g.double[q[1]][q[2]] = i})
       + Cardinality({q \in (1..Len(g.triple)) \X {2, 3, 4} : g.triple[q[1]][q[2]] = i})
\* the names of the list are pairwise different
DistinctNames == \A i \in 1..Len(names) : \A j \in 1..Len(names) :
                     names[i] = names[j] => i = j

\* C14: for every list of distinct point-field names the groups returned by
\* _categorize claim every position of the list exactly once: no position is
\* left out, none appears in two groups or twice in one group.
C14_EveryPositionOnce ==
    (Categorized /\ DistinctNames) =>
        \A i \in 0..(Len(names) - 1) : TimesClaimed(i) = 1

\* C15: for a list in which no prefix has a complete X/Y/Z set and no prefix
\* a complete _R/_Z pair, _categorize returns every name as a single with
\* its own position, and the doubles and triples are empty.
C15_PartialMatchesAreSingles ==
    (pc = "categorized" /\ TriplePrefixes = {} /\ DoublePrefixes = {}) =>
        /\ categorized.ok
        /\ categorized.val.single = [k \in 1..Len(names) |-> <<names[k], k - 1>>]
        /\ categorized.val.double = <<>>
        /\ categorized.val.triple = <<>>

\* a list with pX and pY but no pZ, and p_R but no p_Z, has been categorized
C15_Witness ==
    /\ Categorized
    /\ {<<"p", "X">>, <<"p", "Y">>, <<"p", "_", "R">>} \subseteq SeqRange(names)
    /\ <<"p", "Z">> \notin SeqRange(names)
    /\ <<"p", "_", "Z">> \notin SeqRange(names)
    /\ Len(categorized.val.single) = Len(names)

\* read_exodus has returned a mesh / has failed
ExodusRead == pc = "exodus_read"
ExodusRaised == pc = "exodus_raised"

\* the cells of the k-th connectivity block, numbered by the running counter
RunningRange(k) == CumCount(mesh.cells, k - 1)..(CumCount(mesh.cells, k) - 1)
CellSetKeys == DOMAIN mesh.cell_sets

\* C16: in every mesh returned by read_exodus the cells are numbered by a
\* running counter across the connectivity blocks in declaration order and
\* cell_sets has one entry per connectivity block: the entries are the
\* contiguous ranges of the blocks, pairwise disjoint, and together they
\* cover 0..(total cell count - 1).
C16_CellSetsPartitionCells ==
    ExodusRead =>
        /\ Cardinality(CellSetKeys) = Len(mesh.cells)
        /\ \A k \in 1..Len(mesh.cells) :
               \E key \in CellSetKeys : mesh.cell_sets[key] = RunningRange(k)
        /\ \A a, b \in CellSetKeys :
               a # b => mesh.cell_sets[a] \cap mesh.cell_sets[b] = {}
        /\ UNION {mesh.cell_sets[key] : key \in CellSetKeys}
               = 0..(CumCount(mesh.cells, Len(mesh.cells)) - 1)

\* C17: in every mesh returned by read_exodus each cell_data field holds one
\* slice per cell block, in block order, as long as the block has cells, so
\* that the field is as long as the mesh has cells; this for one block or
\* several, and for element variables stored for all blocks or for some.
C17_CellDataMatchesBlocks ==
    ExodusRead =>
        \A name \in DOMAIN mesh.cell_data :
            /\ Len(mesh.cell_data[name]) = Len(mesh.cells)
            /\ \A k \in 1..Len(mesh.cells) :
                   Len(mesh.cell_data[name][k]) = Len(mesh.cells[k].data)

\* the key read_exodus gives the i-th node set of the file
PointSetKey(i) ==
    IF use_set_names THEN <<mesh_file.ns_names[i]>> ELSE KeyOf(mesh_file.ns_prop1[i])

\* C18: read_exodus turns every stored 1-based connectivity index and every
\* stored 1-based node-set member i into i - 1; the stored indices of a file
\* lying in 1..N for its N nodes, every connectivity index and every
\* point-set member of the returned mesh lies in 0..N-1.
C18_IndicesBecomeZeroBased ==
    ExodusRead =>
        /\ \A k \in 1..Len(mesh.cells) : \A e \in 1..Len(mesh.cells[k].data) :
               \A j \in 1..Len(mesh.cells[k].data[e]) :
                   /\ mesh.cells[k].data[e][j] = mesh_file.blocks[k].data[e][j] - 1
                   /\ mesh.cells[k].data[e][j] \in 0..(mesh.num_points - 1)
        /\ \A key \in DOMAIN mesh.point_sets :
               /\ \E i \in 1..Len(mesh_file.node_ns) :
                      /\ key = PointSetKey(i)
                      /\ mesh.point_sets[key] = {n - 1 : n \in mesh_file.node_ns[i]}
               /\ mesh.point_sets[key] \subseteq 0..(mesh.num_points - 1)

\* a file whose cells and node sets reference the first node (stored 1) and
\* the last node (stored N) has been read
C18_Witness ==
    /\ ExodusRead
    /\ \E k \in 1..Len(mesh.cells) : \E e \in 1..Len(mesh.cells[k].data) :
           /\ mesh_file.blocks[k].data[e][1] = 1
           /\ mesh.cells[k].data[e][1] = 0
    /\ \E k \in 1..Len(mesh.cells) : \E e \in 1..Len(mesh.cells[k].data) :
           /\ mesh_file.blocks[k].data[e][2] = mesh_file.num_nodes
           /\ mesh.cells[k].data[e][2] = mesh.num_points - 1
    /\ \E key \in DOMAIN mesh.point_sets : 0 \in mesh.point_sets[key]
    /\ \E key \in DOMAIN mesh.point_sets : mesh.num_points - 1 \in mesh.point_sets[key]

\* read_exodus has been called on a file with a connectivity block whose
\* upper-cased element type is not in exodus_to_meshio_type
UnknownTypeRead ==
    /\ call = "read_exodus"
    /\ pc # "idle"
    /\ \E k \in 1..Len(mesh_file.blocks) :
           Upper(mesh_file.blocks[k].type) \notin DOMAIN exodus_to_meshio_type

\* C19: when the upper-cased element type of a connectivity block is not in
\* the lookup table, read_exodus fails, returns no mesh, and the failure is
\* an UnsupportedElementTypeError.
C19_UnknownTypeIsUnsupportedError ==
    UnknownTypeRead =>
        /\ ExodusRaised
        /\ mesh = NoMesh
        /\ error = "UnsupportedElementTypeError"

\* the keys the claim expects for the node sets and the connectivity blocks
\* of the file: str(id) of ns_prop1 / eb_prop1, or the names when the flag
\* is set
ExpectedPointKeys ==
    IF use_set_names
    THEN [i \in 1..Len(StoredOr(mesh_file, "ns_names", <<>>)) |-> <<mesh_file.ns_names[i]>>]
    ELSE [i \in 1..Len(mesh_file.ns_prop1) |-> KeyOf(mesh_file.ns_prop1[i])]
ExpectedCellKeys ==
    IF use_set_names
    THEN [k \in 1..Len(StoredOr(mesh_file, "eb_names", <<>>)) |-> <<mesh_file.eb_names[k]>>]
    ELSE [k \in 1..Len(mesh_file.eb_prop1) |-> KeyOf(mesh_file.eb_prop1[k])]

\* C20: read_exodus keys point sets and cell sets by str(id) (ns_prop1,
\* eb_prop1) when use_set_names is false and both by their names when it is
\* true, never one kind for the point sets and the other for the cell sets;
\* in both modes the i-th key goes with the i-th stored node set or the
\* i-th connectivity block, and no set is lost.
C20_SetKeysFollowFlag ==
    ExodusRead =>
        /\ DOMAIN mesh.point_sets = SeqRange(ExpectedPointKeys)
        /\ DOMAIN mesh.cell_sets = SeqRange(ExpectedCellKeys)
        /\ \A i \in 1..Len(mesh_file.node_ns) :
               /\ i <= Len(ExpectedPointKeys)
               /\ mesh.point_sets[ExpectedPointKeys[i]]
                      = {n - 1 : n \in mesh_file.node_ns[i]}
        /\ \A k \in 1..Len(mesh.cells) :
               /\ k <= Len(ExpectedCellKeys)
               /\ mesh.cell_sets[ExpectedCellKeys[k]] = RunningRange(k)
        /\ Cardinality(DOMAIN mesh.point_sets) = Len(mesh_file.node_ns)
        /\ Cardinality(DOMAIN mesh.cell_sets) = Len(mesh.cells)

\* C21: read_exodus returns the coordinates as one array of N rows and 3
\* columns, for a file with one interleaved coord variable as for a file
\* with coordx/coordy/coordz variables, also when the file has fewer than
\* three coordinate axes.
C21_PointsAreNByThree ==
    ExodusRead =>
        /\ Len(mesh.points) = mesh_file.num_nodes
        /\ \A n \in 1..Len(mesh.points) : Len(mesh.points[n]) = 3

\* C22: switch_node_order returns a new mesh and leaves the mesh passed in
\* as it was; in the result every cell block of a type outside the remap
\* table has the connectivity it has in the input, and points, point data,
\* cell data and sets equal those of the input.
C22_SwitchNodeOrderCopies ==
    [][(call = "switch_node_order" /\ pc = "idle" /\ pc' = "switched") =>
         /\ returned' # 1
         /\ heap'[1] = heap[1]
         /\ Len(heap'[returned'].cells) = Len(heap[1].cells)
         /\ \A k \in 1..Len(heap[1].cells) :
                heap[1].cells[k].type \notin special_node_order_types =>
                    heap'[returned'].cells[k] = heap[1].cells[k]
         /\ heap'[returned'].points = heap[1].points
         /\ heap'[returned'].point_data = heap[1].point_data
         /\ heap'[returned'].cell_data = heap[1].cell_data
         /\ heap'[returned'].point_sets = heap[1].point_sets
         /\ heap'[returned'].cell_sets = heap[1].cell_sets]_vars

\* a mesh with a hexahedron27 block and a block of another type has been
\* reordered: the copy differs from the mesh passed in, which has sets
C22_Witness ==
    /\ pc = "switched"
    /\ returned = 2
    /\ \E k \in 1..Len(heap[1].cells) : heap[1].cells[k].type = "hexahedron27"
    /\ \E k \in 1..Len(heap[1].cells) : heap[1].cells[k].type = "line"
    /\ heap[2].cells # heap[1].cells
    /\ heap[1].point_sets # <<>>

\* the hexahedron27 elements of the mesh passed to switch_node_order, as
\* (block, element) pairs, and their node tuples before and after
Hex27Elements ==
    UNION {{<<k, e>> : e \in 1..Len(heap[1].cells[k].data)} :
             k \in {k \in 1..Len(heap[1].cells) :
                      heap[1].cells[k].type = "hexahedron27"}}
NodesBefore(ke) == heap[1].cells[ke[1]].data[ke[2]]
NodesAfter(ke) == heap[returned].cells[ke[1]].data[ke[2]]

\* the position of the input tuple that position j of the result is taken
\* from, read off one element, and the inverse of that map
SourcePosition(ke, j) == CHOOSE p \in 1..27 : NodesBefore(ke)[p] = NodesAfter(ke)[j]
InversePosition(ke, p) == CHOOSE j \in 1..27 : SourcePosition(ke, j) = p

\* C23: the node tuple switch_node_order produces for a hexahedron27
\* element is a permutation of the element's tuple (the dis mapping
\* followed by the vtu mapping is a bijection on the 27 positions: no node
\* dropped, none duplicated), the same permutation for every element, and
\* its inverse gives back the original order.
C23_Hex27RemapIsOnePermutation ==
    pc = "switched" =>
        \A ke \in Hex27Elements :
            /\ Len(NodesAfter(ke)) = 27
            /\ \A p \in 1..27 :
                   Cardinality({j \in 1..27 : NodesAfter(ke)[j] = NodesBefore(ke)[p]}) = 1
            /\ \A other \in Hex27Elements : \A j \in 1..27 :
                   NodesAfter(other)[j] = NodesBefore(other)[SourcePosition(ke, j)]
            /\ [p \in 1..27 |-> NodesAfter(ke)[InversePosition(ke, p)]] = NodesBefore(ke)

\* a block of two hexahedron27 elements has been reordered, and the order
\* of the nodes has changed
C23_Witness ==
    /\ pc = "switched"
    /\ \E ke \in Hex27Elements : ke[2] = 2 /\ NodesAfter(ke) # NodesBefore(ke)
    /\ \E ke \in Hex27Elements : NodesBefore(ke)[1] > NodesBefore(ke)[27]

\* the point_data arrays of a mesh whose name starts with point_set_
PointSetArrays(m) == {n \in DOMAIN m.point_data : n # <<>> /\ Head(n) = "point_set_"}

\* C24: postprocess_vtu_mesh turns every point_data array whose name starts
\* with point_set_ into a point set, keyed by the rest of the name, of
\* exactly the points whose value is 1, removes that array from point_data,
\* leaves every other point_data array in place, and does not change the
\* mesh passed in.
C24_PointSetArraysBecomePointSets ==
    [][(call = "postprocess_vtu_mesh" /\ pc = "idle" /\ pc' = "postprocessed") =>
         /\ returned' # 1
         /\ heap'[1] = heap[1]
         /\ DOMAIN heap'[returned'].point_sets = {Tail(n) : n \in PointSetArrays(heap[1])}
         /\ \A n \in PointSetArrays(heap[1]) :
                heap'[returned'].point_sets[Tail(n)]
                    = {i \in DOMAIN heap[1].point_data[n] : heap[1].point_data[n][i] = 1}
         /\ DOMAIN heap'[returned'].point_data
                = (DOMAIN heap[1].point_data) \ PointSetArrays(heap[1])
         /\ \A n \in DOMAIN heap'[returned'].point_data :
                heap'[returned'].point_data[n] = heap[1].point_data[n]]_vars

\* a mesh with the arrays point_set_1 (values 0, 1, 2), point_set_2 and T
\* has been postprocessed: two point sets, T left in point_data
C24_Witness ==
    /\ pc = "postprocessed"
    /\ DOMAIN heap[1].point_data = PointDataNames
    /\ heap[1].point_data[<<"point_set_", "1">>] = [n \in Nodes |-> n]
    /\ heap[returned].point_sets[<<"1">>] = {1}
    /\ <<"2">> \in DOMAIN heap[returned].point_sets
    /\ DOMAIN heap[returned].point_data = {<<"T">>}

\* the block_id values of the cells of a mesh, in the contiguous numbering
\* of the cells across the cell blocks
BlockIdOfCells(m) == Concatenate(m.block_id)

\* C25: postprocess_vtu_mesh derives the cell sets from the per-cell
\* block_id field so that, for any number of cell blocks, every cell (in
\* the contiguous numbering across blocks) is in exactly one cell set, the
\* one keyed by str(block_id of the cell), and a cell set holds all cells
\* of its value.
C25_CellSetsFromBlockId ==
    (pc = "postprocessed" /\ heap[1].has_block_id) =>
        LET ids == BlockIdOfCells(heap[1])
            cell_sets == heap[returned].cell_sets
        IN /\ DOMAIN cell_sets = {KeyOf(ids[c]) : c \in 1..Len(ids)}
           /\ \A key \in DOMAIN cell_sets :
                  cell_sets[key] = {c - 1 : c \in {d \in 1..Len(ids) : KeyOf(ids[d]) = key}}

\* the names of all sections listed in general_sections or section_names
SectionsIn(general) ==
    UNION {SeqRange(general[m].sections) : m \in 1..Len(general)}
SubsectionsIn(snames) ==
    UNION {SeqRange(snames[m].subsections) : m \in 1..Len(snames)}
SubsectionsOf(snames, main) ==
    IF main \in MainKeys(snames) THEN SeqRange(snames[At(snames, main)].subsections)
    ELSE {}

\* C26: a click on the delete button removes only the selected section; a
\* main group that has other subsections goes only when the deleted section
\* was its last subsection; a required section is never deleted; afterwards
\* the selected section is a subsection of the selected main section, or
\* empty.
C26_DeleteRemovesOnlyTheSelection ==
    [][pc' = "clicked_delete" =>
         /\ SectionsIn(general_sections) \ SectionsIn(general_sections')
                \subseteq {selected_section_name}
         /\ SubsectionsIn(section_names) \ SubsectionsIn(section_names')
                \subseteq {selected_section_name}
         /\ selected_main_section_name \notin MainKeys(section_names')
                => SubsectionsOf(section_names, selected_main_section_name)
                       \subseteq {selected_section_name}
         /\ RequiredSections \cap SectionsIn(general_sections)
                \subseteq SectionsIn(general_sections')
         /\ \/ selected_section_name' = <<>>
            \/ selected_section_name'
                   \in SubsectionsOf(section_names', selected_main_section_name')
    ]_vars

\* C29: a general section that was deleted stays away: it is neither in
\* state.general_sections nor in any content that click_save_button wrote.
C29_DeletedSectionStaysDeleted ==
    call = "section_events" =>
        /\ deleted \cap SectionsIn(general_sections) = {}
        /\ saved_deleted = {}


\* C27: when FourCGeometry returned an empty vtu_file_path,
\* init_pyvista_render_objects sets read_in_status to the conversion error
\* and completes without raising.
C27_ConversionErrorIsReported ==
    ( /\ call = "FourCWebServer"
      /\ fourc_yaml_file # <<>>
      /\ vtu_file_path = <<>>
      /\ pc \in {"srv_done", "srv_raised"} )
    => /\ read_in_status = "vtu_conversion_error"
       /\ pc = "srv_done"

\* a file that stores every element variable for every block, and names
\* its point variables
AllElemVarsStored ==
    /\ "name_nod_var" \in DOMAIN mesh_file
    /\ Len(mesh_file.vals_elem_var)
           = Len(mesh_file.name_elem_var) * Len(mesh_file.blocks)
\* the numbers of the point variables whose name starts with the given part
PointVarsNamed(part) ==
    SelectSeq([i \in 1..Len(mesh_file.name_nod_var) |-> i],
              LAMBDA i : mesh_file.name_nod_var[i][1] = part)

\* C28: read_exodus stores each per-cell field under the name declared at
\* the index of its variable, with the values of the blocks in block order,
\* whatever the order of the vals_elem_var variables in the file; the
\* per-point fields are paired with their names by index likewise.
C28_FieldsFollowDeclaredIndex ==
    (ExodusRead /\ AllElemVarsStored) =>
        /\ \A i \in 1..Len(mesh_file.name_elem_var) :
               /\ mesh_file.name_elem_var[i] \in DOMAIN mesh.cell_data
               /\ \A k \in 1..Len(mesh.cells) :
                      mesh.cell_data[mesh_file.name_elem_var[i]][k]
                          = [c \in 1..Len(mesh.cells[k].data) |-> ElemVarValue(i, k, c)]
        /\ \A i \in 1..Len(mesh_file.name_nod_var) :
               LET name == mesh_file.name_nod_var[i]
               IN IF Len(name) = 1
                  THEN /\ name \in DOMAIN mesh.point_data
                       /\ mesh.point_data[name]
                              = [n \in 1..NumNodes |-> NodVarValue(i, n)]
                  ELSE /\ <<name[1]>> \in DOMAIN mesh.point_data
                       /\ mesh.point_data[<<name[1]>>]
                              = [n \in 1..NumNodes |->
                                   [j \in 1..Len(PointVarsNamed(name[1])) |->
                                       NodVarValue(PointVarsNamed(name[1])[j], n)]]

\* the TAR_MAT entries of the cloning material map
TarMats ==
    {cloning_material_map_section[i].TAR_MAT :
        i \in 1..Len(cloning_material_map_section)}

\* C30: determine_master_mat_ind_for_material terminates for every cloning
\* material map, also one whose entries form a cycle, and the id it returns
\* is the TAR_MAT of no entry.
\* Each pass takes the SRC_MAT of an entry whose TAR_MAT is the current id
\* and nothing else decides the next pass, so a loop that ends has taken each
\* entry at most once: more passes than entries is a loop that never ends.
C30_MasterLookupTerminates ==
    call = "determine_master_mat_ind_for_material" =>
        /\ passes <= Len(cloning_material_map_section)
        /\ (pc = "mat_returned" /\ cloning_material_map_section # <<>>)
               => master_mat_id \notin TarMats

====
